---- MODULE Spec2Model ----
(***************************************************************************)
(* Session store, event normalizer, lifecycle controller and streaming     *)
(* delivery of the claude-ide web application.                             *)
(*                                                                         *)
(* Conventions.  An optional JavaScript value (a field that may be         *)
(* undefined) is a sequence of length 0 or 1.  A string is a record        *)
(* [base, len]: the first len characters of the text named base, so that   *)
(* substring(0, n) and truthiness act on the length.  Money is counted in  *)
(* millionths of a dollar.  Instants (new Date()) are one value, Date.     *)
(* The body of one event-loop turn (the synchronous code between two       *)
(* awaits) is one action.                                                  *)
(***************************************************************************)
EXTENDS Integers, Sequences, FiniteSets, TLC

VARIABLES
    sessions,     \* SessionRepository.sessions : id -> Session
    subAgents,    \* SessionRepository.subAgents : id -> SubAgent
    saveTimeout,  \* SessionRepository.saveTimeout : the save timer's handle
    nextId,       \* the next identifier generateId() hands out
    runs,         \* the runs started so far, each with its position
    lastResult,   \* the value returned by the last lifecycle call
    sub,          \* one subscription of the streaming endpoint
    peer,         \* a second subscription, opened by another request
    held,         \* what a consumer of the store holds from an earlier read
    timers,       \* the number of save timers set and neither cleared nor fired
    disk,         \* the snapshot the database file holds, and the writes made
    loading,      \* the load started by the constructor has not finished
    lastCall,     \* the last call made on the store: operation, id, calls so far
    view          \* ConversationView of an observer: its message list and position

vars == <<sessions, subAgents, saveTimeout, nextId, runs, lastResult, sub,
          timers, disk, loading, lastCall, peer, held, view>>

\* the in-memory store, and what lies behind it
storeVars == <<sessions, subAgents, saveTimeout, nextId, timers>>
durability == <<disk, loading, lastCall>>
\* the other subscription, the consumer of the store and the observer
clients == <<peer, held, view>>

-----------------------------------------------------------------------------
(* Bounds of the model *)

MaxSessions == 1
MaxRuns == 2
MaxEvents == 2

-----------------------------------------------------------------------------
(* Values *)

None == <<>>
Some(x) == <<x>>
IsSome(o) == Len(o) > 0
Val(o) == o[1]

Lit(b, n) == [base |-> b, len |-> n]
EmptyStr == Lit("", 0)
Truthy(s) == s.len > 0
\* String.prototype.substring(0, n)
Substring(s, n) == IF s.len <= n THEN s ELSE [s EXCEPT !.len = n]

Date == "date"

IsPrefix(s, t) == Len(s) <= Len(t) /\ SubSeq(t, 1, Len(s)) = s

Terminal(status) == status \in {"completed", "error"}

\* the database file of a first start: { sessions: [], subAgents: [] };
\* writes counts the times this process has written the file
EmptyDisk == [sessions |-> <<>>, subAgents |-> <<>>, writes |-> 0]
NoCall == [op |-> "none", id |-> 0, n |-> 0]

\* the locals of a GET of the streaming endpoint before start(controller)
\* runs: state is the controller's ("none" before the stream is built, then
\* "open", "closed" or "cancelled"), intervalId and heartbeatId are "null",
\* "active" or "cleared", events are the payloads enqueued so far
NoStream ==
    [state |-> "none", sessionId |-> 0, lastMessageCount |-> 0,
     completionSent |-> FALSE, events |-> <<>>, completeOwed |-> FALSE,
     intervalId |-> "null", heartbeatId |-> "null"]

\* a consumer that has read nothing: op and id name the read, n is the call
\* it was, shares names the parts of the returned value that are the store's
\* own objects, seen is what the consumer noted of the records
NoHandle == [op |-> "none", id |-> 0, n |-> 0, shares |-> {}, seen |-> <<>>]

\* the observer before its page has loaded anything
NoView ==
    [messages |-> <<>>, applied |-> 0, pc |-> "idle", status |-> "none",
     sdkSessionId |-> None]

-----------------------------------------------------------------------------
(* Entity Store: lib/session-repository.ts.  A store value st is the       *)
(* record [sessions, subAgents, saveTimeout, nextId, timers]; every        *)
(* operation maps a store value to the store value after the call.         *)

MaxContext == 200000

Store == [sessions |-> sessions, subAgents |-> subAgents,
          saveTimeout |-> saveTimeout, nextId |-> nextId, timers |-> timers]

\* { ...record, ...updates }
Spread(record, updates) ==
    [f \in DOMAIN record |-> IF f \in DOMAIN updates THEN updates[f] ELSE record[f]]

Remove(f, k) == [x \in DOMAIN f \ {k} |-> f[x]]

\* mutant: the timer set before is not cleared
scheduleSave_NoClear(st) ==
    [st EXCEPT !.saveTimeout = "pending", !.timers = @ + 1]

\* saveTimeout is "null", "pending" (a timer that has not fired) or "fired";
\* clearTimeout removes the timer of the handle if it has not fired
scheduleSave(st) ==
    [st EXCEPT !.saveTimeout = "pending",
               !.timers = (IF st.saveTimeout = "pending" THEN @ - 1 ELSE @) + 1]

newSession(id, prompt) ==
    [id |-> id, description |-> prompt, status |-> "active",
     sdkSessionId |-> None, contextUsed |-> 0, maxContext |-> MaxContext,
     totalTokens |-> 0, totalCost |-> 0, completedAt |-> None, error |-> None,
     messages |-> <<>>, subAgents |-> <<>>]

\* the new session's id is st.nextId
createSession(st, prompt) ==
    scheduleSave([st EXCEPT
        !.sessions = (st.nextId :> newSession(st.nextId, prompt)) @@ @,
        !.nextId = @ + 1])

\* the record getSession returns, as an optional value
getSession(st, id) ==
    IF id \notin DOMAIN st.sessions THEN None
    ELSE LET session == st.sessions[id]
             live == SelectSeq(session.subAgents, LAMBDA sa : sa.id \in DOMAIN st.subAgents)
         IN Some([session EXCEPT
                !.subAgents = [i \in 1..Len(live) |-> st.subAgents[live[i].id]]])

updateSession(st, id, updates) ==
    IF id \notin DOMAIN st.sessions THEN st
    ELSE scheduleSave([st EXCEPT !.sessions[id] = Spread(@, updates)])

updateSessionStatus(st, id, status, error) ==
    IF id \notin DOMAIN st.sessions THEN st
    ELSE LET u1 == [status |-> status]
             u2 == IF Terminal(status) THEN u1 @@ [completedAt |-> Some(Date)] ELSE u1
             u3 == IF IsSome(error) /\ Truthy(Val(error)) THEN u2 @@ [error |-> error] ELSE u2
         IN updateSession(st, id, u3)

\* mutant: the entry is built without the metadata it was given
newMessage_MetadataDropped(type, content, subtype, metadata) ==
    [timestamp |-> Date, type |-> type, subtype |-> subtype,
     content |-> content, metadata |-> None]

newMessage(type, content, subtype, metadata) ==
    [timestamp |-> Date, type |-> type, subtype |-> subtype,
     content |-> content, metadata |-> metadata]

\* mutant: the entry is put in front of the log (unshift for push)
addSessionMessage_Unshift(st, id, type, content, subtype, metadata) ==
    IF id \notin DOMAIN st.sessions THEN st
    ELSE scheduleSave([st EXCEPT !.sessions[id].messages =
            <<newMessage(type, content, subtype, metadata)>> \o @])

\* mutant: the entry is pushed onto the log of every session
addSessionMessage_EveryLog(st, id, type, content, subtype, metadata) ==
    IF id \notin DOMAIN st.sessions THEN st
    ELSE scheduleSave([st EXCEPT !.sessions =
            [x \in DOMAIN @ |->
                [@[x] EXCEPT !.messages =
                    Append(@, newMessage(type, content, subtype, metadata))]]])

addSessionMessage(st, id, type, content, subtype, metadata) ==
    IF id \notin DOMAIN st.sessions THEN st
    ELSE scheduleSave([st EXCEPT !.sessions[id].messages =
            Append(@, newMessage(type, content, subtype, metadata))])

\* mutant: the continuation token of the data is not stored
updateSessionMetrics_TokenDropped(st, id, data) ==
    IF id \notin DOMAIN st.sessions THEN st
    ELSE scheduleSave([st EXCEPT
        !.sessions[id].contextUsed =
            IF IsSome(data.contextUsed) THEN Val(data.contextUsed) ELSE @,
        !.sessions[id].totalTokens =
            IF IsSome(data.totalTokens) THEN Val(data.totalTokens) ELSE @,
        !.sessions[id].totalCost =
            IF IsSome(data.totalCost) THEN Val(data.totalCost) ELSE @])

\* data: [contextUsed, totalTokens, totalCost, sdkSessionId], each optional
updateSessionMetrics(st, id, data) ==
    IF id \notin DOMAIN st.sessions THEN st
    ELSE scheduleSave([st EXCEPT
        !.sessions[id].contextUsed =
            IF IsSome(data.contextUsed) THEN Val(data.contextUsed) ELSE @,
        !.sessions[id].totalTokens =
            IF IsSome(data.totalTokens) THEN Val(data.totalTokens) ELSE @,
        !.sessions[id].totalCost =
            IF IsSome(data.totalCost) THEN Val(data.totalCost) ELSE @,
        !.sessions[id].sdkSessionId =
            IF IsSome(data.sdkSessionId) /\ Truthy(Val(data.sdkSessionId))
            THEN data.sdkSessionId ELSE @])

\* mutant: the sub-agents of the session are left in the map
deleteSession_NoCascade(st, id) ==
    IF id \notin DOMAIN st.sessions THEN st
    ELSE scheduleSave([st EXCEPT !.sessions = Remove(@, id)])

deleteSession(st, id) ==
    IF id \notin DOMAIN st.sessions THEN st
    ELSE LET listed == {st.sessions[id].subAgents[i].id :
                            i \in 1..Len(st.sessions[id].subAgents)}
         IN scheduleSave([st EXCEPT
                !.subAgents = [x \in DOMAIN st.subAgents \ listed |-> st.subAgents[x]],
                !.sessions = Remove(@, id)])

newSubAgent(id, sessionId, type, description) ==
    [id |-> id, sessionId |-> sessionId, type |-> type, description |-> description,
     status |-> "running", contextUsed |-> 0, totalTokens |-> 0, totalCost |-> 0,
     completedAt |-> None, error |-> None, messages |-> <<>>, result |-> None]

\* the new sub-agent's id is st.nextId
\* mutant: the sub-agent is stored and listed, and no save is scheduled
createSubAgent_NoSave(st, sessionId, type, description) ==
    LET subAgent == newSubAgent(st.nextId, sessionId, type, description)
        s1 == [st EXCEPT !.subAgents = (st.nextId :> subAgent) @@ @,
                         !.nextId = @ + 1]
    IN IF sessionId \in DOMAIN s1.sessions
       THEN [s1 EXCEPT !.sessions[sessionId].subAgents = Append(@, subAgent)]
       ELSE s1

createSubAgent(st, sessionId, type, description) ==
    LET subAgent == newSubAgent(st.nextId, sessionId, type, description)
        s1 == [st EXCEPT !.subAgents = (st.nextId :> subAgent) @@ @,
                         !.nextId = @ + 1]
        s2 == IF sessionId \in DOMAIN s1.sessions
              THEN [s1 EXCEPT !.sessions[sessionId].subAgents = Append(@, subAgent)]
              ELSE s1
    IN scheduleSave(s2)

updateSubAgent(st, id, updates) ==
    IF id \notin DOMAIN st.subAgents THEN st
    ELSE scheduleSave([st EXCEPT !.subAgents[id] = Spread(@, updates)])

\* mutant: the status is left out of the updates
updateSubAgentStatus_StatusDropped(st, id, status, error, result) ==
    IF id \notin DOMAIN st.subAgents THEN st
    ELSE LET u2 == IF Terminal(status) THEN [completedAt |-> Some(Date)] ELSE <<>>
             u4 == IF IsSome(result) /\ Truthy(Val(result)) THEN u2 @@ [result |-> result] ELSE u2
         IN updateSubAgent(st, id, u4)

updateSubAgentStatus(st, id, status, error, result) ==
    IF id \notin DOMAIN st.subAgents THEN st
    ELSE LET u1 == [status |-> status]
             u2 == IF Terminal(status) THEN u1 @@ [completedAt |-> Some(Date)] ELSE u1
             u3 == IF IsSome(error) /\ Truthy(Val(error)) THEN u2 @@ [error |-> error] ELSE u2
             u4 == IF IsSome(result) /\ Truthy(Val(result)) THEN u3 @@ [result |-> result] ELSE u3
         IN updateSubAgent(st, id, u4)

newSubAgentMessage(type, content, metadata) ==
    [timestamp |-> Date, type |-> type, content |-> content, metadata |-> metadata]

addSubAgentMessage(st, id, type, content, metadata) ==
    IF id \notin DOMAIN st.subAgents THEN st
    ELSE scheduleSave([st EXCEPT !.subAgents[id].messages =
            Append(@, newSubAgentMessage(type, content, metadata))])

\* mutant: the save is scheduled before the sub-agent is looked up
updateSubAgentMetrics_SaveFirst(st, id, data) ==
    IF id \notin DOMAIN st.subAgents THEN scheduleSave(st)
    ELSE scheduleSave([st EXCEPT
        !.subAgents[id].contextUsed =
            IF IsSome(data.contextUsed) THEN Val(data.contextUsed) ELSE @,
        !.subAgents[id].totalTokens =
            IF IsSome(data.totalTokens) THEN Val(data.totalTokens) ELSE @,
        !.subAgents[id].totalCost =
            IF IsSome(data.totalCost) THEN Val(data.totalCost) ELSE @])

\* data: [contextUsed, totalTokens, totalCost], each optional
updateSubAgentMetrics(st, id, data) ==
    IF id \notin DOMAIN st.subAgents THEN st
    ELSE scheduleSave([st EXCEPT
        !.subAgents[id].contextUsed =
            IF IsSome(data.contextUsed) THEN Val(data.contextUsed) ELSE @,
        !.subAgents[id].totalTokens =
            IF IsSome(data.totalTokens) THEN Val(data.totalTokens) ELSE @,
        !.subAgents[id].totalCost =
            IF IsSome(data.totalCost) THEN Val(data.totalCost) ELSE @])

deleteSubAgent(st, id) ==
    scheduleSave([st EXCEPT !.subAgents = [x \in DOMAIN @ \ {id} |-> @[x]]])

\* clear() empties both maps and leaves the save timer alone
clear(st) == [st EXCEPT !.sessions = <<>>, !.subAgents = <<>>]

-----------------------------------------------------------------------------
(* Upstream events: the messages the query() stream yields.                *)

ResultLimit == 1000
PreviewLimit == 500

NoOutput == [kind |-> "undefined", len |-> 0]

BaseEvent ==
    [type |-> "", subtype |-> None, event_type |-> "", tool_name |-> "",
     subagent_type |-> None, description |-> None, tool_output |-> NoOutput,
     text |-> EmptyStr, usage |-> None, total_cost_usd |-> None,
     session_id |-> None, errors |-> <<>>]

Usage(i, o) == [input_tokens |-> i, output_tokens |-> o]

InitEvent == [BaseEvent EXCEPT !.type = "system", !.subtype = Some("init")]
AssistantEvent(text, usage) ==
    [BaseEvent EXCEPT !.type = "assistant", !.text = text, !.usage = usage]
UserEvent == [BaseEvent EXCEPT !.type = "user"]
ToolUseEvent(tool, subagent_type, description) ==
    [BaseEvent EXCEPT !.type = "stream_event", !.event_type = "tool_use",
                      !.tool_name = tool, !.subagent_type = subagent_type,
                      !.description = description]
ToolResultEvent(tool, output) ==
    [BaseEvent EXCEPT !.type = "stream_event", !.event_type = "tool_result",
                      !.tool_name = tool, !.tool_output = output]
SuccessEvent(usage, cost, session_id) ==
    [BaseEvent EXCEPT !.type = "result", !.subtype = Some("success"), !.usage = usage,
                      !.total_cost_usd = cost, !.session_id = session_id]
FailureEvent(subtype, errors) ==
    [BaseEvent EXCEPT !.type = "result", !.subtype = Some(subtype), !.errors = errors]

StringOutput(n) == [kind |-> "string", len |-> n]
ObjectOutput(n) == [kind |-> "object", len |-> n]

-----------------------------------------------------------------------------
(* Event Normalizer: processSessionMessages, app/actions.ts.               *)

EmptyMeta ==
    [sub_agent_id |-> None, sub_agent_type |-> None, tokens |-> None,
     usage |-> None, total_cost |-> None, session_id |-> None, errors |-> None]

Content(tag, a, b, n) == [tag |-> tag, a |-> a, b |-> b, n |-> n]

\* a || b on strings that may be undefined
OrElse(o, d) == IF IsSome(o) /\ Truthy(Val(o)) THEN Val(o) ELSE d
\* a || 0 on numbers that may be undefined
OrZero(o) == IF IsSome(o) THEN Val(o) ELSE 0

TokenSum(usage) ==
    IF IsSome(usage) THEN Val(usage).input_tokens + Val(usage).output_tokens ELSE 0

\* the value thrown by undefined.substring(...)
TypeError == [isError |-> TRUE, message |-> Lit("Cannot read properties of undefined", 35)]

\* typeof tool_output === "string" ? tool_output : JSON.stringify(tool_output)
resultText(output) ==
    IF output.kind = "string" THEN Some(Lit("tool_output", output.len))
    ELSE IF output.kind = "object" THEN Some(Lit("json", output.len))
    ELSE None

Step(st, cur, logContent, metadata, thrown) ==
    [st |-> st, cur |-> cur, logContent |-> logContent, metadata |-> metadata,
     thrown |-> thrown]

\* mutant: a spawn event that arrives while a sub-agent is open is dropped
subAgentStep_DropWhenOpen(st, sessionId, cur, message) ==
    IF message.type = "stream_event" /\ message.event_type = "tool_use"
       /\ message.tool_name = "Task" /\ ~IsSome(cur)
    THEN Step(createSubAgent(st, sessionId, OrElse(message.subagent_type, Lit("unknown", 7)),
                             OrElse(message.description, Lit("Running task", 12))),
              Some(st.nextId), None, EmptyMeta, None)
    ELSE Step(st, cur, None, EmptyMeta, None)

\* mutant: a tool result that closes no sub-agent is logged all the same
subAgentStep_UnmatchedResultLogged(st, sessionId, cur, message) ==
    IF message.type = "stream_event" /\ message.event_type = "tool_use"
       /\ message.tool_name = "Task"
    THEN LET subAgentType == OrElse(message.subagent_type, Lit("unknown", 7))
             description == OrElse(message.description, Lit("Running task", 12))
         IN Step(createSubAgent(st, sessionId, subAgentType, description),
                 Some(st.nextId),
                 Some(Content("launching_sub_agent", subAgentType, description, 0)),
                 [EmptyMeta EXCEPT !.sub_agent_id = Some(st.nextId),
                                   !.sub_agent_type = Some(subAgentType)],
                 None)
    ELSE IF message.type = "stream_event" /\ message.event_type = "tool_result"
            /\ message.tool_name = "Task" /\ IsSome(cur)
    THEN LET result == resultText(message.tool_output)
         IN IF ~IsSome(result)
            THEN Step(st, cur, None, EmptyMeta, Some(TypeError))
            ELSE Step(updateSubAgentStatus(st, Val(cur), "completed", None,
                          Some(Substring(Val(result), ResultLimit))),
                      None,
                      Some(Content("sub_agent_completed",
                                   Substring(Val(result), PreviewLimit), EmptyStr, 0)),
                      [EmptyMeta EXCEPT !.sub_agent_id = cur],
                      None)
    ELSE IF message.type = "stream_event" /\ message.event_type = "tool_result"
    THEN Step(st, cur, Some(Content("tool_result", EmptyStr, EmptyStr, 0)), EmptyMeta, None)
    ELSE Step(st, cur, None, EmptyMeta, None)

\* the stream_event branch of one loop iteration
subAgentStep(st, sessionId, cur, message) ==
    IF message.type = "stream_event" /\ message.event_type = "tool_use"
       /\ message.tool_name = "Task"
    THEN LET subAgentType == OrElse(message.subagent_type, Lit("unknown", 7))
             description == OrElse(message.description, Lit("Running task", 12))
         IN Step(createSubAgent(st, sessionId, subAgentType, description),
                 Some(st.nextId),
                 Some(Content("launching_sub_agent", subAgentType, description, 0)),
                 [EmptyMeta EXCEPT !.sub_agent_id = Some(st.nextId),
                                   !.sub_agent_type = Some(subAgentType)],
                 None)
    ELSE IF message.type = "stream_event" /\ message.event_type = "tool_result"
            /\ message.tool_name = "Task" /\ IsSome(cur)
    THEN LET result == resultText(message.tool_output)
         IN IF ~IsSome(result)
            THEN Step(st, cur, None, EmptyMeta, Some(TypeError))
            ELSE Step(updateSubAgentStatus(st, Val(cur), "completed", None,
                          Some(Substring(Val(result), ResultLimit))),
                      None,
                      Some(Content("sub_agent_completed",
                                   Substring(Val(result), PreviewLimit), EmptyStr, 0)),
                      [EmptyMeta EXCEPT !.sub_agent_id = cur],
                      None)
    ELSE Step(st, cur, None, EmptyMeta, None)

\* the system/init, assistant and result branches of one loop iteration
standardStep(s, sessionId, message) ==
    IF message.type = "system" /\ message.subtype = Some("init")
    THEN [s EXCEPT !.logContent =
                Some(Content("session_initialized", Lit("claude-sonnet-4-5", 17), EmptyStr, 0)),
                   !.metadata = EmptyMeta]
    ELSE IF message.type = "assistant"
    THEN LET totalTokens == TokenSum(message.usage)
         IN [s EXCEPT
                !.st = IF IsSome(message.usage)
                       THEN updateSessionMetrics(s.st, sessionId,
                                [contextUsed |-> Some(totalTokens),
                                 totalTokens |-> Some(totalTokens),
                                 totalCost |-> None, sdkSessionId |-> None])
                       ELSE s.st,
                !.logContent =
                    Some(Content("text",
                                 IF Truthy(message.text) THEN message.text
                                 ELSE Lit("Assistant message", 17), EmptyStr, 0)),
                !.metadata = IF IsSome(message.usage)
                             THEN [s.metadata EXCEPT !.tokens = message.usage]
                             ELSE s.metadata]
    ELSE IF message.type = "result" /\ message.subtype = Some("success")
    THEN LET totalTokens == TokenSum(message.usage)
             cost == OrZero(message.total_cost_usd)
         IN [s EXCEPT
                !.st = updateSessionMetrics(
                           updateSessionStatus(s.st, sessionId, "completed", None),
                           sessionId,
                           [contextUsed |-> Some(totalTokens),
                            totalTokens |-> Some(totalTokens),
                            totalCost |-> Some(cost),
                            sdkSessionId |-> message.session_id]),
                !.logContent = Some(Content("session_completed", EmptyStr, EmptyStr, cost)),
                !.metadata = [EmptyMeta EXCEPT !.usage = message.usage,
                                               !.total_cost = Some(cost),
                                               !.session_id = message.session_id]]
    ELSE IF message.type = "result"
    THEN LET errorMsg == IF Len(message.errors) > 0 THEN message.errors[1]
                         ELSE Lit("Error: " \o Val(message.subtype), 8)
         IN [s EXCEPT
                !.st = updateSessionStatus(s.st, sessionId, "error", Some(errorMsg)),
                !.logContent = Some(Content("session_failed", errorMsg, EmptyStr, 0)),
                !.metadata = [EmptyMeta EXCEPT !.errors = Some(message.errors)]]
    ELSE s

\* one iteration of the for-await loop: the store, the current sub-agent
\* marker and the value thrown (if any) after the message is processed
processMessage(st, sessionId, cur, message) ==
    LET s1 == subAgentStep(st, sessionId, cur, message)
        s2 == IF IsSome(s1.thrown) THEN s1 ELSE standardStep(s1, sessionId, message)
    IN IF IsSome(s2.thrown) \/ ~IsSome(s2.logContent) THEN s2
       ELSE [s2 EXCEPT !.st = addSessionMessage(s2.st, sessionId, message.type,
                                  Val(s2.logContent), message.subtype, Some(s2.metadata))]

\* the catch block of runSessionInBackground / runSessionWithResume
runFailed(st, sessionId, error) ==
    updateSessionStatus(st, sessionId, "error",
        Some(IF error.isError THEN error.message ELSE Lit("Unknown error", 13)))

-----------------------------------------------------------------------------
(* Lifecycle Controller and the event loop: app/actions.ts.                *)

SetStore(st) ==
    /\ sessions' = st.sessions
    /\ subAgents' = st.subAgents
    /\ saveTimeout' = st.saveTimeout
    /\ nextId' = st.nextId
    /\ timers' = st.timers

newRun(sessionId, resume) ==
    [sessionId |-> sessionId, resume |-> resume, pc |-> "running",
     currentSubAgentId |-> None, fed |-> <<>>]

RECURSIVE SumFed(_)
SumFed(n) == IF n = 0 THEN 0 ELSE Len(runs[n].fed) + SumFed(n - 1)
\* the number of events processed so far, over all runs
TotalFed == SumFed(Len(runs))

\* the number of sessions created so far
Started == Cardinality({r \in 1..Len(runs) : ~IsSome(runs[r].resume)})

\* History kept with the subscription: completeOwed holds from the moment the
\* subscribed session enters a terminal status (or is found in one when the
\* subscription opens) until the next complete event is enqueued.
Witnessed(s) ==
    IF /\ s.state = "open"
       /\ s.sessionId \in DOMAIN sessions
       /\ s.sessionId \in DOMAIN sessions'
       /\ ~Terminal(sessions[s.sessionId].status)
       /\ Terminal(sessions'[s.sessionId].status)
    THEN [s EXCEPT !.completeOwed = TRUE]
    ELSE s

Init ==
    /\ sessions = <<>>
    /\ subAgents = <<>>
    /\ saveTimeout = "null"
    /\ nextId = 1
    /\ runs = <<>>
    /\ lastResult = "none"
    /\ sub = NoStream
    /\ peer = NoStream
    /\ held = NoHandle
    /\ view = NoView
    /\ timers = 0
    /\ disk = EmptyDisk
    /\ loading = FALSE
    /\ lastCall = NoCall

\* startSession from createSession on: the session is created and its run
\* started in the same turn
startSession(prompt) ==
    /\ SetStore(createSession(Store, prompt))
    /\ runs' = Append(runs, newRun(nextId, None))
    /\ lastResult' = "success"
    /\ UNCHANGED <<sub, durability, clients>>

\* mutant: the check of the continuation token is missing
continueSession_NoTokenCheck(sessionId, prompt, repoFound) ==
    LET session == getSession(Store, sessionId)
    IN IF ~IsSome(session)
       THEN /\ lastResult' = "Session not found"
            /\ UNCHANGED <<storeVars, runs, sub, durability, clients>>
       ELSE IF ~repoFound
       THEN /\ lastResult' = "Repository not found"
            /\ UNCHANGED <<storeVars, runs, sub, durability, clients>>
       ELSE /\ SetStore(addSessionMessage(
                   updateSessionStatus(Store, sessionId, "active", None),
                   sessionId, "user", Content("text", prompt, EmptyStr, 0), None, None))
            /\ runs' = Append(runs, newRun(sessionId, Val(session).sdkSessionId))
            /\ lastResult' = "success"
            /\ UNCHANGED <<sub, durability, clients>>

\* mutant: a session that is not stored is resumed without a token
continueSession_AbsentResumed(sessionId, prompt, repoFound) ==
    LET session == getSession(Store, sessionId)
    IN IF ~IsSome(session)
       THEN /\ runs' = Append(runs, newRun(sessionId, Some(EmptyStr)))
            /\ lastResult' = "success"
            /\ UNCHANGED <<storeVars, sub, durability, clients>>
       ELSE IF ~IsSome(Val(session).sdkSessionId)
       THEN /\ lastResult' = "Session cannot be resumed"
            /\ UNCHANGED <<storeVars, runs, sub, durability, clients>>
       ELSE IF ~repoFound
       THEN /\ lastResult' = "Repository not found"
            /\ UNCHANGED <<storeVars, runs, sub, durability, clients>>
       ELSE /\ SetStore(addSessionMessage(
                   updateSessionStatus(Store, sessionId, "active", None),
                   sessionId, "user", Content("text", prompt, EmptyStr, 0), None, None))
            /\ runs' = Append(runs, newRun(sessionId, Val(session).sdkSessionId))
            /\ lastResult' = "success"
            /\ UNCHANGED <<sub, durability, clients>>

\* mutant: the prompt is not added to the log
continueSession_NoUserMessage(sessionId, prompt, repoFound) ==
    LET session == getSession(Store, sessionId)
    IN IF ~IsSome(session)
       THEN /\ lastResult' = "Session not found"
            /\ UNCHANGED <<storeVars, runs, sub, durability, clients>>
       ELSE IF ~IsSome(Val(session).sdkSessionId)
       THEN /\ lastResult' = "Session cannot be resumed"
            /\ UNCHANGED <<storeVars, runs, sub, durability, clients>>
       ELSE IF ~repoFound
       THEN /\ lastResult' = "Repository not found"
            /\ UNCHANGED <<storeVars, runs, sub, durability, clients>>
       ELSE /\ SetStore(updateSessionStatus(Store, sessionId, "active", None))
            /\ runs' = Append(runs, newRun(sessionId, Val(session).sdkSessionId))
            /\ lastResult' = "success"
            /\ UNCHANGED <<sub, durability, clients>>

continueSession(sessionId, prompt, repoFound) ==
    LET session == getSession(Store, sessionId)
    IN IF ~IsSome(session)
       THEN /\ lastResult' = "Session not found"
            /\ UNCHANGED <<storeVars, runs, sub, durability, clients>>
       ELSE IF ~IsSome(Val(session).sdkSessionId)
       THEN /\ lastResult' = "Session cannot be resumed"
            /\ UNCHANGED <<storeVars, runs, sub, durability, clients>>
       ELSE IF ~repoFound
       THEN /\ lastResult' = "Repository not found"
            /\ UNCHANGED <<storeVars, runs, sub, durability, clients>>
       ELSE /\ SetStore(addSessionMessage(
                   updateSessionStatus(Store, sessionId, "active", None),
                   sessionId, "user", Content("text", prompt, EmptyStr, 0), None, None))
            /\ runs' = Append(runs, newRun(sessionId, Val(session).sdkSessionId))
            /\ lastResult' = "success"
            /\ UNCHANGED <<sub, durability, clients>>

\* one iteration of the for-await loop of run r on the message the stream yields
NextEvent(r, message) ==
    /\ runs[r].pc = "running"
    /\ LET out == processMessage(Store, runs[r].sessionId,
                                 runs[r].currentSubAgentId, message)
       IN IF IsSome(out.thrown)
          THEN /\ SetStore(runFailed(out.st, runs[r].sessionId, Val(out.thrown)))
               /\ runs' = [runs EXCEPT ![r].pc = "done",
                                       ![r].fed = Append(@, message)]
          ELSE /\ SetStore(out.st)
               /\ runs' = [runs EXCEPT ![r].currentSubAgentId = out.cur,
                                       ![r].fed = Append(@, message)]
    /\ sub' = Witnessed(sub)
    /\ UNCHANGED <<lastResult, durability, clients>>

\* the stream of run r rejects: the catch of processSessionMessages rethrows,
\* the catch of the run function stamps the session
StreamRaises(r, error) ==
    /\ runs[r].pc = "running"
    /\ SetStore(runFailed(Store, runs[r].sessionId, error))
    /\ runs' = [runs EXCEPT ![r].pc = "done"]
    /\ sub' = Witnessed(sub)
    /\ UNCHANGED <<lastResult, durability, clients>>

\* mutant: a run whose stream ends parks its session as paused
StreamEnds_Pauses(r) ==
    /\ runs[r].pc = "running"
    /\ runs' = [runs EXCEPT ![r].pc = "done"]
    /\ SetStore(updateSessionStatus(Store, runs[r].sessionId, "paused", None))
    /\ UNCHANGED <<lastResult, sub, durability, clients>>

\* the stream of run r is exhausted: the loop and the run function return
StreamEnds(r) ==
    /\ runs[r].pc = "running"
    /\ runs' = [runs EXCEPT ![r].pc = "done"]
    /\ UNCHANGED <<storeVars, lastResult, sub, durability, clients>>

\* the cleanup operation on the store
DeleteSession(sessionId) ==
    /\ sessionId \in DOMAIN sessions
    /\ SetStore(deleteSession(Store, sessionId))
    /\ UNCHANGED <<runs, lastResult, sub, durability, clients>>

\* the data saveToDatabaseAsync hands to saveDatabase
Snapshotted == [sessions |-> sessions, subAgents |-> subAgents]

\* mutant: the sub-agents written are the ones listed in the sessions
Written_ListedSubAgents ==
    [sessions |-> sessions,
     subAgents |-> [a \in DOMAIN subAgents |->
        IF \E z \in DOMAIN sessions : \E i \in DOMAIN sessions[z].subAgents :
              sessions[z].subAgents[i].id = a
        THEN LET z == CHOOSE y \in DOMAIN sessions :
                        \E i \in DOMAIN sessions[y].subAgents :
                            sessions[y].subAgents[i].id = a
                 i == CHOOSE j \in DOMAIN sessions[z].subAgents :
                        sessions[z].subAgents[j].id = a
             IN sessions[z].subAgents[i]
        ELSE subAgents[a]],
     writes |-> disk.writes + 1]

\* the file after writeFile has written the data
Written == [sessions |-> sessions, subAgents |-> subAgents, writes |-> disk.writes + 1]

\* a timer set by scheduleSave fires: saveToDatabase writes the snapshot, or
\* fails to (ok = FALSE) and logs the failure; only the timer of the handle
\* can be left when the code clears the one before it
SaveTimerFires(ok) ==
    /\ timers > 0
    /\ timers' = timers - 1
    /\ saveTimeout' = IF timers = 1 /\ saveTimeout = "pending" THEN "fired" ELSE saveTimeout
    /\ disk' = IF ok THEN Written ELSE disk
    /\ UNCHANGED <<sessions, subAgents, nextId, runs, lastResult, sub, loading, lastCall, clients>>

-----------------------------------------------------------------------------
(* Streaming Delivery: GET of app/api/sessions/[sessionId]/stream/route.ts *)

\* the status and metrics sent along with a message or complete event
Snapshot(session) ==
    [status |-> session.status, contextUsed |-> session.contextUsed,
     totalTokens |-> session.totalTokens, totalCost |-> session.totalCost,
     sdkSessionId |-> session.sdkSessionId]

\* an enqueued payload; at is the log index of the first message it carries
StreamEvent(type, messages, at, session) ==
    [type |-> type, messages |-> messages, at |-> at, session |-> session]

\* start(controller) of a request whose locals are s: the init snapshot and
\* the two intervals, or an error payload and close
start(s, sessionId) ==
    LET session == getSession(Store, sessionId)
    IN IF ~IsSome(session)
       THEN [s EXCEPT !.state = "closed", !.sessionId = sessionId,
                      !.events = <<StreamEvent("error", <<>>, 0, None)>>]
       ELSE [s EXCEPT
                !.state = "open", !.sessionId = sessionId,
                !.events = <<StreamEvent("init", Val(session).messages, 1,
                                         Some(Snapshot(Val(session))))>>,
                !.lastMessageCount = Len(Val(session).messages),
                !.completeOwed = Terminal(Val(session).status),
                !.heartbeatId = "active",
                !.intervalId = "active"]

\* mutant: lastMessageCount is not set to the length of the init snapshot
Subscribe_CountNotSet(sessionId) ==
    /\ sub.state = "none"
    /\ sub' = [start(sub, sessionId) EXCEPT !.lastMessageCount = 0]
    /\ UNCHANGED <<storeVars, runs, lastResult, durability, clients>>

\* a GET of the endpoint: the stream is built and start(controller) runs
Subscribe(sessionId) ==
    /\ sub.state = "none"
    /\ sub' = start(sub, sessionId)
    /\ UNCHANGED <<storeVars, runs, lastResult, durability, clients>>

\* the message payloads of one poll: one per log entry after lastMessageCount
newMessageEvents(session, lastMessageCount) ==
    [i \in 1..(Len(session.messages) - lastMessageCount) |->
        StreamEvent("message", <<session.messages[lastMessageCount + i]>>,
                    lastMessageCount + i, Some(Snapshot(session)))]

\* one run of the 500 ms polling callback of a request whose locals are s;
\* on a controller that is not open close() and enqueue() throw, in the try
\* block and again in the catch block, and nothing is delivered
poll(s) ==
    LET session == getSession(Store, s.sessionId)
    IN IF s.state # "open" THEN s
       ELSE IF ~IsSome(session)
       THEN [s EXCEPT !.state = "closed", !.intervalId = "cleared"]
       ELSE LET z == Val(session)
                fresh == Len(z.messages) > s.lastMessageCount
                complete == Terminal(z.status) /\ ~s.completionSent
                e1 == IF fresh
                      THEN s.events \o newMessageEvents(z, s.lastMessageCount)
                      ELSE s.events
                e2 == IF complete
                      THEN Append(e1, StreamEvent("complete", <<>>, 0, Some(Snapshot(z))))
                      ELSE e1
            IN [s EXCEPT
                   !.events = e2,
                   !.lastMessageCount = IF fresh THEN Len(z.messages) ELSE @,
                   !.completeOwed = IF complete THEN FALSE ELSE @,
                   !.completionSent =
                       IF complete THEN TRUE
                       ELSE IF z.status = "active" /\ s.completionSent THEN FALSE
                       ELSE @]

\* the polling interval fires
PollTick ==
    /\ sub.intervalId = "active"
    /\ sub' = poll(sub)
    /\ UNCHANGED <<storeVars, runs, lastResult, durability, clients>>

\* the polling interval fires and its try block throws before anything is
\* enqueued: the catch closes the controller and clears both intervals
PollFails ==
    /\ sub.intervalId = "active"
    /\ sub.state = "open"
    /\ sub' = [sub EXCEPT !.state = "closed", !.intervalId = "cleared",
                          !.heartbeatId = "cleared"]
    /\ UNCHANGED <<storeVars, runs, lastResult, durability, clients>>

\* mutant: the heartbeat is written whatever the state of the controller
heartbeat_AlwaysDelivered(s) ==
    [s EXCEPT !.events = Append(@, StreamEvent("heartbeat", <<>>, 0, None))]

\* one run of the 15 s heartbeat callback: enqueue() on a controller that is
\* not open throws, and the catch clears the heartbeat interval
heartbeat(s) ==
    IF s.state = "open"
    THEN [s EXCEPT !.events = Append(@, StreamEvent("heartbeat", <<>>, 0, None))]
    ELSE [s EXCEPT !.heartbeatId = "cleared"]

\* the heartbeat interval fires
Heartbeat ==
    /\ sub.heartbeatId = "active"
    /\ sub' = heartbeat(sub)
    /\ UNCHANGED <<storeVars, runs, lastResult, durability, clients>>

\* mutant: cancel() clears the polling interval only
cancel_PollOnly(s) ==
    [s EXCEPT !.state = "cancelled", !.intervalId = "cleared"]

\* cancel(): both intervals are cleared
cancel(s) ==
    [s EXCEPT !.state = "cancelled", !.intervalId = "cleared",
              !.heartbeatId = "cleared"]

\* the consumer of an open stream cancels it
Cancel ==
    /\ sub.state = "open"
    /\ sub' = cancel(sub)
    /\ UNCHANGED <<storeVars, runs, lastResult, durability, clients>>

\* the same four steps of the request behind the second subscription
SubscribePeer(sessionId) ==
    /\ peer.state = "none"
    /\ peer' = start(peer, sessionId)
    /\ UNCHANGED <<storeVars, runs, lastResult, sub, durability, held, view>>

PollTickPeer ==
    /\ peer.intervalId = "active"
    /\ peer' = poll(peer)
    /\ UNCHANGED <<storeVars, runs, lastResult, sub, durability, held, view>>

HeartbeatPeer ==
    /\ peer.heartbeatId = "active"
    /\ peer' = heartbeat(peer)
    /\ UNCHANGED <<storeVars, runs, lastResult, sub, durability, held, view>>

CancelPeer ==
    /\ peer.state = "open"
    /\ peer' = cancel(peer)
    /\ UNCHANGED <<storeVars, runs, lastResult, sub, durability, held, view>>

-----------------------------------------------------------------------------
(* Calls on the store and the Durability Adapter: lib/session-repository.ts *)
(* and lib/db.ts.  lastResult is the value a call returns: "session",       *)
(* "subAgent", "null", "undefined", "true", "false", or how the promise of  *)
(* an async call settles, "resolved" or "rejected".                         *)

\* a synchronous call of a store method: st is the store after the call
StoreCall(op, id, st, result) ==
    /\ SetStore(st)
    /\ lastCall' = [op |-> op, id |-> id, n |-> lastCall.n + 1]
    /\ lastResult' = result
    /\ UNCHANGED <<runs, sub, disk, loading, clients>>

Call_createSession(prompt) ==
    StoreCall("createSession", nextId, createSession(Store, prompt), "session")

Call_getSession(id) ==
    StoreCall("getSession", id, Store,
              IF IsSome(getSession(Store, id)) THEN "session" ELSE "null")

Call_updateSession(id, updates) ==
    StoreCall("updateSession", id, updateSession(Store, id, updates),
              IF id \in DOMAIN sessions THEN "session" ELSE "null")

Call_updateSessionStatus(id, status, error) ==
    StoreCall("updateSessionStatus", id, updateSessionStatus(Store, id, status, error),
              IF id \in DOMAIN sessions THEN "session" ELSE "null")

Call_addSessionMessage(id, type, content) ==
    StoreCall("addSessionMessage", id,
              addSessionMessage(Store, id, type, content, None, None), "undefined")

Call_updateSessionMetrics(id, data) ==
    StoreCall("updateSessionMetrics", id, updateSessionMetrics(Store, id, data), "undefined")

Call_deleteSession(id) ==
    StoreCall("deleteSession", id, deleteSession(Store, id),
              IF id \in DOMAIN sessions THEN "true" ELSE "false")

Call_createSubAgent(sessionId, type, description) ==
    StoreCall("createSubAgent", nextId,
              createSubAgent(Store, sessionId, type, description), "subAgent")

Call_updateSubAgent(id, updates) ==
    StoreCall("updateSubAgent", id, updateSubAgent(Store, id, updates),
              IF id \in DOMAIN subAgents THEN "subAgent" ELSE "null")

Call_updateSubAgentStatus(id, status, error, result) ==
    StoreCall("updateSubAgentStatus", id,
              updateSubAgentStatus(Store, id, status, error, result),
              IF id \in DOMAIN subAgents THEN "subAgent" ELSE "null")

Call_addSubAgentMessage(id, type, content) ==
    StoreCall("addSubAgentMessage", id,
              addSubAgentMessage(Store, id, type, content, None), "undefined")

Call_updateSubAgentMetrics(id, data) ==
    StoreCall("updateSubAgentMetrics", id, updateSubAgentMetrics(Store, id, data), "undefined")

Call_deleteSubAgent(id) ==
    StoreCall("deleteSubAgent", id, deleteSubAgent(Store, id),
              IF id \in DOMAIN subAgents THEN "true" ELSE "false")

Call_clear == StoreCall("clear", 0, clear(Store), "undefined")

\* flush(): the pending timer is cleared and the handle reset, the snapshot
\* is taken and awaited; a failure of saveDatabase (ok = FALSE) is logged
\* and thrown again by saveDatabase and by saveToDatabaseAsync
Call_flush(ok) ==
    /\ saveTimeout' = "null"
    /\ timers' = IF saveTimeout = "pending" THEN timers - 1 ELSE timers
    /\ disk' = IF ok THEN Written ELSE disk
    /\ lastCall' = [op |-> "flush", id |-> 0, n |-> lastCall.n + 1]
    /\ lastResult' = IF ok THEN "resolved" ELSE "rejected"
    /\ UNCHANGED <<sessions, subAgents, nextId, runs, sub, loading, clients>>

\* the constructor's loadFromDatabase sets isLoaded before it returns
isLoaded == TRUE

\* ensureLoaded(): awaits a load only if isLoaded is false
Call_ensureLoaded ==
    /\ isLoaded
    /\ lastCall' = [op |-> "ensureLoaded", id |-> 0, n |-> lastCall.n + 1]
    /\ lastResult' = "resolved"
    /\ UNCHANGED <<storeVars, runs, sub, disk, loading, clients>>

\* texts that match /^\d{4}-\d{2}-\d{2}T/ when at least 11 characters long
DateLike == {"2026-01-05T09:00 stand-up notes"}

\* the reviver of JSON.parse: a string that starts like a date becomes a
\* Date object
Revive(s) == IF s.base \in DateLike /\ s.len >= 11 THEN Lit("Date", s.len) ELSE s

\* what the reviver does to a stored entry, a session and a sub-agent: the
\* text of an entry and the descriptions are strings, the timestamps were
\* Date objects before they were written
reviveMessage(m) ==
    [m EXCEPT !.content = IF @.tag = "text" THEN [@ EXCEPT !.a = Revive(@)] ELSE @]

reviveSession(z) ==
    [z EXCEPT !.description = Revive(@),
              !.messages = [i \in DOMAIN @ |-> reviveMessage(@[i])],
              !.subAgents = [i \in DOMAIN @ |-> [@[i] EXCEPT !.description = Revive(@)]]]

\* loadDatabase(): the file as JSON.parse returns it, or empty data when the
\* file cannot be read or parsed (ok = FALSE)
loadDatabase(file, ok) ==
    IF ok
    THEN [sessions |-> [id \in DOMAIN file.sessions |-> reviveSession(file.sessions[id])],
          subAgents |-> [id \in DOMAIN file.subAgents |->
                            [file.subAgents[id] EXCEPT !.description = Revive(@)]]]
    ELSE [sessions |-> <<>>, subAgents |-> <<>>]

\* the load started by the constructor finishes: every record of the file
\* is set into the maps; a file that cannot be read or parsed is logged and
\* counts as an empty one
LoadCompletes(ok) ==
    /\ loading
    /\ loading' = FALSE
    /\ sessions' = loadDatabase(disk, ok).sessions @@ sessions
    /\ subAgents' = loadDatabase(disk, ok).subAgents @@ subAgents
    /\ UNCHANGED <<saveTimeout, nextId, timers, runs, lastResult, sub, disk, lastCall, clients>>

-----------------------------------------------------------------------------
(* Inputs *)

Prompts == {Lit("fix bug", 7)}
Token == Lit("sdk-session", 11)
Small == Usage(10, 5)
Large == Usage(100, 50)

RaisedValues ==
    {[isError |-> TRUE, message |-> Lit("stream failed", 13)],
     [isError |-> TRUE, message |-> EmptyStr],
     [isError |-> FALSE, message |-> EmptyStr]}

AllIds == 1..(nextId - 1)
Running == {r \in 1..Len(runs) : runs[r].pc = "running"}
MayStart == Len(runs) < MaxRuns /\ Started < MaxSessions
MayContinue == Len(runs) < MaxRuns
MayFeed == TotalFed < MaxEvents

-----------------------------------------------------------------------------
(* Spec: store, normalizer and lifecycle under an arbitrary upstream.      *)

LifecycleEvents ==
    {AssistantEvent(Lit("hello", 5), Some(Large)),
     SuccessEvent(Some(Large), Some(2000), Some(Token)),
     SuccessEvent(None, Some(2000), None),
     FailureEvent("error_max_turns", <<Lit("boom", 4)>>)}

Next ==
    \/ \E prompt \in Prompts : MayStart /\ startSession(prompt)
    \/ \E id \in AllIds, prompt \in Prompts, repoFound \in BOOLEAN :
          MayContinue /\ continueSession(id, prompt, repoFound)
    \/ \E r \in Running, message \in LifecycleEvents : MayFeed /\ NextEvent(r, message)
    \/ \E r \in Running, error \in RaisedValues : StreamRaises(r, error)
    \/ \E r \in Running : StreamEnds(r)
    \/ \E id \in AllIds : DeleteSession(id)

Spec == Init /\ [][Next]_vars

Existing == DOMAIN sessions \cap DOMAIN sessions'

\* a successful continueSession(id, ...) step: the only step that starts a
\* resume run of session id
Continued(id) ==
    /\ Len(runs') = Len(runs) + 1
    /\ runs'[Len(runs')].sessionId = id
    /\ IsSome(runs'[Len(runs')].resume)

\* C1: once a session's status is completed or error, the status changes
\* again only in a continueSession step, and then only to active.
C1_TerminalLeftOnlyByContinue ==
    [][\A id \in Existing :
          (Terminal(sessions[id].status) /\ sessions'[id].status # sessions[id].status)
          => (sessions'[id].status = "active" /\ Continued(id))]_vars

RunsOf(id) == {r \in 1..Len(runs) : runs[r].sessionId = id}

\* C2: when every run started for a session has ended (by a terminal
\* result, by a raised error or by the stream simply ending), the session
\* is not active.
C2_EndedRunsLeaveSessionNonActive ==
    \A id \in DOMAIN sessions :
        (RunsOf(id) # {} /\ \A r \in RunsOf(id) : runs[r].pc = "done")
        => sessions[id].status # "active"

\* C3: in every step, every session that exists before and after the step
\* keeps all its log entries at their index, unchanged; the log only grows
\* at its end.
C3_LogAppendOnly ==
    [][\A id \in Existing : IsPrefix(sessions[id].messages, sessions'[id].messages)]_vars

\* C3 witness: a session whose log was written by the lifecycle controller
\* (the user entry of a continuation) and by the normalizer, before and after it.
C3_Witness ==
    \E id \in DOMAIN sessions :
        /\ Len(sessions[id].messages) >= 3
        /\ sessions[id].messages[2].type = "user"
        /\ Terminal(sessions[id].status)

NoToken(id) == id \in DOMAIN sessions /\ ~IsSome(sessions[id].sdkSessionId)

\* C6: a continueSession call on a stored session that has no continuation
\* token returns a failure and changes neither the sessions, the sub-agents,
\* the save timer nor the runs.
C6_ContinueWithoutTokenFails ==
    [][\A id \in AllIds, prompt \in Prompts, repoFound \in BOOLEAN :
          (NoToken(id) /\ continueSession(id, prompt, repoFound))
          => /\ lastResult' = "Session cannot be resumed"
             /\ UNCHANGED <<storeVars, runs>>]_vars

\* C6 witness: the call was rejected for a session that ended without a token.
C6_Witness ==
    /\ lastResult = "Session cannot be resumed"
    /\ \E id \in DOMAIN sessions : NoToken(id) /\ Terminal(sessions[id].status)

\* C30: continueSession with the id of a session that is not in the store
\* returns the failure "Session not found", starts no run and leaves the
\* sessions, the sub-agents and the save timer as they were.
C30_ContinueAbsentFails ==
    [][\A id \in AllIds, prompt \in Prompts, repoFound \in BOOLEAN :
          (id \notin DOMAIN sessions /\ continueSession(id, prompt, repoFound))
          => /\ lastResult' = "Session not found"
             /\ UNCHANGED <<storeVars, runs>>]_vars

\* the call was made with the id of a session that was deleted while its
\* run was in flight
C30_Witness ==
    /\ lastResult = "Session not found"
    /\ \E r \in 1..Len(runs) :
          runs[r].sessionId \notin DOMAIN sessions /\ runs[r].pc = "running"

\* C31: at most one run of a session is in flight at any time: no resume
\* run is started while an earlier run of the same session has not ended.
C31_OneRunPerSession ==
    \A r1, r2 \in Running : runs[r1].sessionId = runs[r2].sessionId => r1 = r2

\* C13: a session has an error message only if its status is error: a
\* session that is active or completed has no error field, after any
\* sequence of runs, terminal results and continuations.
C13_ErrorOnlyInErrorStatus ==
    \A id \in DOMAIN sessions :
        sessions[id].status \in {"active", "completed"} => ~IsSome(sessions[id].error)

-----------------------------------------------------------------------------
(* SpecScenario: one fresh session and the events of its first run.        *)

MaxScenarioEvents == 3

ScenarioEvents ==
    {InitEvent, UserEvent,
     AssistantEvent(Lit("hello", 5), None),
     AssistantEvent(Lit("hello", 5), Some(Large)),
     AssistantEvent(EmptyStr, Some(Small)),
     SuccessEvent(None, Some(2000), Some(Token)),
     SuccessEvent(Some(Large), Some(2000), Some(Token)),
     SuccessEvent(Some(Small), None, None),
     FailureEvent("error_during_execution", <<>>)}

NextScenario ==
    \/ \E prompt \in Prompts : MayStart /\ startSession(prompt)
    \/ \E r \in Running, message \in ScenarioEvents :
          TotalFed < MaxScenarioEvents /\ NextEvent(r, message)
    \/ \E r \in Running, error \in RaisedValues : StreamRaises(r, error)
    \/ \E r \in Running : StreamEnds(r)

SpecScenario == Init /\ [][NextScenario]_vars

\* C7: in every step taken while a session is active, its contextUsed,
\* totalTokens and totalCost do not decrease.
C7_MetricsNeverDecreaseWhileActive ==
    [][\A id \in Existing :
          sessions[id].status = "active"
          => /\ sessions'[id].contextUsed >= sessions[id].contextUsed
             /\ sessions'[id].totalTokens >= sessions[id].totalTokens
             /\ sessions'[id].totalCost >= sessions[id].totalCost]_vars

\* the events of Scenario A: init, an assistant turn with 100 input and 50
\* output tokens, a success result with total_cost_usd = 0.002
IsScenarioA(fed) ==
    /\ Len(fed) = 3
    /\ fed[1] = InitEvent
    /\ fed[2].type = "assistant" /\ fed[2].usage = Some(Usage(100, 50))
    /\ fed[3].type = "result" /\ fed[3].subtype = Some("success")
    /\ fed[3].total_cost_usd = Some(2000)

\* C8: once the first run of a fresh session has processed the events of
\* Scenario A, the session is completed, its totalTokens is 150 and its log
\* has exactly 3 entries.
C8_ScenarioA ==
    \A r \in 1..Len(runs) :
        (~IsSome(runs[r].resume) /\ IsScenarioA(runs[r].fed)
         /\ runs[r].sessionId \in DOMAIN sessions)
        => LET session == sessions[runs[r].sessionId]
           IN /\ session.status = "completed"
              /\ session.totalTokens = 150
              /\ Len(session.messages) = 3

NoResultFed(r) == \A i \in 1..Len(runs[r].fed) : runs[r].fed[i].type # "result"

\* C11: when the stream of a run raises before the run processed any result
\* event, the session is left with status error and a non-empty error
\* string, whatever was raised: an Error with a message, an Error with an
\* empty message, a value that is not an Error.
C11_RaiseLeavesErrorMessage ==
    [][\A r \in Running, error \in RaisedValues :
          (/\ StreamRaises(r, error)
           /\ NoResultFed(r)
           /\ runs[r].sessionId \in DOMAIN sessions)
          => LET session == sessions'[runs[r].sessionId]
             IN /\ session.status = "error"
                /\ IsSome(session.error)
                /\ Truthy(Val(session.error))]_vars

-----------------------------------------------------------------------------
(* SpecSubAgent: sub-agent boundaries in the event stream.                 *)

SpawnEvents ==
    {ToolUseEvent("Task", Some(Lit("test-runner", 11)), Some(Lit("run the tests", 13))),
     ToolUseEvent("Task", None, None)}

TaskResultEvents ==
    {ToolResultEvent("Task", StringOutput(7)),
     ToolResultEvent("Task", StringOutput(ResultLimit + 500)),
     ToolResultEvent("Task", StringOutput(0)),
     ToolResultEvent("Task", ObjectOutput(20)),
     ToolResultEvent("Task", NoOutput)}

SubAgentEvents ==
    SpawnEvents \cup TaskResultEvents \cup
    {ToolUseEvent("Bash", None, None),
     ToolResultEvent("Bash", StringOutput(7)),
     SuccessEvent(Some(Large), Some(2000), Some(Token))}

NextSubAgent ==
    \/ \E prompt \in Prompts : MayStart /\ startSession(prompt)
    \/ \E id \in AllIds, prompt \in Prompts :
          MayContinue /\ continueSession(id, prompt, TRUE)
    \/ \E r \in Running, message \in SubAgentEvents : MayFeed /\ NextEvent(r, message)
    \/ \E r \in Running : StreamEnds(r)
    \/ \E id \in AllIds : DeleteSession(id)

SpecSubAgent == Init /\ [][NextSubAgent]_vars

\* C9: a step that processes a spawn event under run r adds exactly one
\* record to the sub-agents, with status running and the run's session as
\* parent, changes no other sub-agent and makes the new one the run's current
\* sub-agent; and the current sub-agent of a run whose session is stored is a
\* stored sub-agent, so it exists when a later tool-result is processed.
C9_SpawnCreatesOneSubAgent ==
    /\ [][\A r \in Running, message \in SpawnEvents :
            NextEvent(r, message)
            => \E a \in DOMAIN subAgents' :
                  /\ DOMAIN subAgents' = DOMAIN subAgents \cup {a}
                  /\ a \notin DOMAIN subAgents
                  /\ \A b \in DOMAIN subAgents : subAgents'[b] = subAgents[b]
                  /\ subAgents'[a].status = "running"
                  /\ subAgents'[a].sessionId = runs[r].sessionId
                  /\ runs'[r].currentSubAgentId = Some(a)]_vars
    /\ [](\A r \in 1..Len(runs) :
            (IsSome(runs[r].currentSubAgentId) /\ runs[r].sessionId \in DOMAIN sessions)
            => Val(runs[r].currentSubAgentId) \in DOMAIN subAgents)

\* C9 witness: a second spawn was processed while a sub-agent was open, and
\* both records are stored under the session.
C9_Witness ==
    \E r \in 1..Len(runs) :
        /\ Len(runs[r].fed) = 2
        /\ runs[r].fed[1] \in SpawnEvents /\ runs[r].fed[2] \in SpawnEvents
        /\ Cardinality({a \in DOMAIN subAgents :
              subAgents[a].sessionId = runs[r].sessionId}) = 2

\* C10: a step that processes a Task tool-result while the run's current
\* sub-agent is stored sets that sub-agent to completed, stores a result of
\* at most 1000 characters and clears the run's current-sub-agent marker.
C10_TaskResultCompletesSubAgent ==
    [][\A r \in Running, message \in TaskResultEvents :
          (/\ NextEvent(r, message)
           /\ IsSome(runs[r].currentSubAgentId)
           /\ Val(runs[r].currentSubAgentId) \in DOMAIN subAgents)
          => LET a == Val(runs[r].currentSubAgentId)
             IN /\ a \in DOMAIN subAgents'
                /\ subAgents'[a].status = "completed"
                /\ IsSome(subAgents'[a].result)
                /\ Val(subAgents'[a].result).len <= ResultLimit
                /\ runs'[r].currentSubAgentId = None]_vars

\* C14: a sub-agent keeps the parent session id it was created with, in
\* every step; and a sub-agent whose status is running has no completedAt
\* and no result.
C14_SubAgentParentAndRunning ==
    /\ [][\A a \in DOMAIN subAgents \cap DOMAIN subAgents' :
            subAgents'[a].sessionId = subAgents[a].sessionId]_vars
    /\ [](\A a \in DOMAIN subAgents :
            subAgents[a].status = "running"
            => ~IsSome(subAgents[a].completedAt) /\ ~IsSome(subAgents[a].result))

\* C14 witness: a sub-agent spawned by a run was closed by a Task result:
\* it is completed, with a completion time and a result.
C14_Witness ==
    \E a \in DOMAIN subAgents :
        /\ subAgents[a].status = "completed"
        /\ IsSome(subAgents[a].completedAt)
        /\ IsSome(subAgents[a].result)
        /\ subAgents[a].sessionId \in DOMAIN sessions

\* C15: after deleteSession(id), the writes of a run of that session that is
\* still in flight are no-ops: whatever step the run takes (an event
\* processed, its stream ending or failing), the stored sessions and
\* sub-agents stay as they were.
C15_WritesAfterDeleteAreNoOps ==
    [][\A r \in Running :
          (runs'[r] # runs[r] /\ runs[r].sessionId \notin DOMAIN sessions)
          => UNCHANGED <<sessions, subAgents>>]_vars

-----------------------------------------------------------------------------
(* SpecStream: one subscription polling a session while its runs go on.    *)
(* Sessions are not deleted here, so an open subscription stays open.      *)

StreamEvents ==
    {AssistantEvent(Lit("hello", 5), Some(Large)),
     SuccessEvent(Some(Large), Some(2000), Some(Token))}

StreamFailure == [isError |-> TRUE, message |-> Lit("stream failed", 13)]

NextStream ==
    \/ \E prompt \in Prompts : MayStart /\ startSession(prompt)
    \/ \E id \in AllIds, prompt \in Prompts :
          MayContinue /\ continueSession(id, prompt, TRUE)
    \/ \E r \in Running, message \in StreamEvents : MayFeed /\ NextEvent(r, message)
    \/ \E r \in Running : StreamRaises(r, StreamFailure)
    \/ \E r \in Running : StreamEnds(r)
    \/ \E id \in AllIds : Subscribe(id)
    \/ PollTick

SpecStream == Init /\ [][NextStream]_vars

Subscribed == sub.state = "open" /\ sub.sessionId \in DOMAIN sessions
Log == sessions[sub.sessionId].messages

\* the poller has nothing left to send: a poll tick would change nothing
PolledUp ==
    /\ Subscribed
    /\ sub.lastMessageCount = Len(Log)
    /\ ~(Terminal(sessions[sub.sessionId].status) /\ ~sub.completionSent)
    /\ ~(sessions[sub.sessionId].status = "active" /\ sub.completionSent)

\* C4: each terminal transition of the session gets its complete event:
\* once the poller has caught up with a session in a terminal status, a
\* complete event has been emitted since the session last reached a terminal
\* status, whatever the interleaving of ticks, continuations and run events.
C4_CompleteAfterEachTerminalTransition ==
    (PolledUp /\ Terminal(sessions[sub.sessionId].status)) => ~sub.completeOwed

\* the number of payloads of one type among events
CountOf(events, type) == Cardinality({i \in 1..Len(events) : events[i].type = type})

\* the subscription was opened on a session in a terminal status
OpenedTerminal(s) ==
    /\ s.state = "open"
    /\ s.events[1].type = "init"
    /\ Terminal(Val(s.events[1].session).status)

\* a continuation since the subscription opened: its user entry lies in the
\* log after the entries of the init snapshot (only continueSession writes
\* entries of type user)
ContinuedSinceOpen(s, log) ==
    \E i \in (Len(s.events[1].messages) + 1)..Len(log) : log[i].type = "user"

\* C12: a subscription opened on a session that is already completed or in
\* error, and that is not continued afterwards, gets init with the full log
\* as its first payload, no message payload, and exactly one complete
\* payload: one from the first poll tick on, never a second.
C12_TerminalSubscriptionGetsOneComplete ==
    /\ [][\A id \in DOMAIN sessions :
            (Subscribe(id) /\ Terminal(sessions[id].status))
            => sub'.events = <<StreamEvent("init", sessions[id].messages, 1,
                                           Some(Snapshot(sessions[id])))>>]_vars
    /\ []((Subscribed /\ OpenedTerminal(sub) /\ ~ContinuedSinceOpen(sub, Log))
          => /\ CountOf(sub.events, "message") = 0
             /\ CountOf(sub.events, "complete") <= 1)
    /\ [][(/\ PollTick
           /\ Subscribed'
           /\ OpenedTerminal(sub')
           /\ ~ContinuedSinceOpen(sub', sessions'[sub'.sessionId].messages))
          => CountOf(sub'.events, "complete") = 1]_vars

RECURSIVE Flatten(_)
\* the messages carried by the init and message payloads, as <<index, message>>
Flatten(events) ==
    IF events = <<>> THEN <<>>
    ELSE LET e == events[1]
         IN [i \in 1..Len(e.messages) |-> <<e.at + i - 1, e.messages[i]>>]
            \o Flatten(Tail(events))

Delivered == Flatten(sub.events)

InLogOrder(d, log) ==
    /\ Len(d) <= Len(log)
    /\ \A i \in 1..Len(d) : d[i] = <<i, log[i]>>

\* C5: on an open subscription the init snapshot and the message events
\* carry the entries 1, 2, ..., k of the log, each once and in log order, and
\* a poll tick leaves no entry of the log undelivered.
C5_EachMessageDeliveredOnce ==
    /\ [](Subscribed => InLogOrder(Delivered, Log))
    /\ [][(PollTick /\ Subscribed') => Len(Flatten(sub'.events)) = Len(Log')]_vars

\* C5 witness: the init snapshot carried entries and later polls carried more,
\* among them the user entry of a continuation.
C5_Witness ==
    /\ Subscribed
    /\ Len(sub.events[1].messages) >= 1
    /\ Len(Delivered) = Len(Log)
    /\ \E i \in 2..Len(sub.events) :
          sub.events[i].type = "message" /\ sub.events[i].messages[1].type = "user"

SessionStatuses == {"active", "completed", "error"}

\* C29: under every sequence of lifecycle calls, upstream events, raised
\* errors, subscriptions and poll ticks, the status of every session is
\* active, completed or error, never paused.
C29_NeverPaused ==
    \A id \in DOMAIN sessions : sessions[id].status \in SessionStatuses

\* a session that completed, was continued and then failed, under a
\* subscription that has delivered a complete payload
C29_Witness ==
    /\ sub.state = "open"
    /\ CountOf(sub.events, "complete") > 0
    /\ \E id \in DOMAIN sessions :
          /\ sessions[id].status = "error"
          /\ IsSome(sessions[id].sdkSessionId)
          /\ \E i \in DOMAIN sessions[id].messages : sessions[id].messages[i].type = "user"

-----------------------------------------------------------------------------
(* SpecStore: the methods of the store called directly, on stored and on   *)
(* absent ids, while the load started by the constructor may still be in   *)
(* flight.  No save timer fires here.                                       *)

MaxCalls == 3

\* the store of an earlier process: a session and a sub-agent under it
PriorStore ==
    createSubAgent(
        createSession([sessions |-> <<>>, subAgents |-> <<>>, saveTimeout |-> "null",
                       nextId |-> -1, timers |-> 0], Lit("earlier work", 12)),
        -1, Lit("test-runner", 11), Lit("run the tests", 13))

\* the database file that process left
PriorDisk ==
    [sessions |-> PriorStore.sessions, subAgents |-> PriorStore.subAgents, writes |-> 0]

\* the state after the constructor returned: empty maps, the load in flight
InitLoading ==
    /\ sessions = <<>>
    /\ subAgents = <<>>
    /\ saveTimeout = "null"
    /\ nextId = 1
    /\ runs = <<>>
    /\ lastResult = "none"
    /\ sub = NoStream
    /\ peer = NoStream
    /\ held = NoHandle
    /\ view = NoView
    /\ timers = 0
    /\ disk \in {EmptyDisk, PriorDisk}
    /\ loading = TRUE
    /\ lastCall = NoCall

\* the ids calls are made with: every stored id and one that is not stored
StoreIds == DOMAIN sessions \cup DOMAIN subAgents \cup {nextId}
MayCall == lastCall.n < MaxCalls

Renamed == [description |-> Lit("renamed", 7)]
StatusCalls == {<<"completed", None>>, <<"error", Some(Lit("boom", 4))>>}
SessionMetrics ==
    [contextUsed |-> Some(150), totalTokens |-> Some(150),
     totalCost |-> Some(2000), sdkSessionId |-> Some(Token)]
SubAgentMetrics ==
    [contextUsed |-> Some(15), totalTokens |-> Some(15), totalCost |-> None]

NextStore ==
    \/ \E prompt \in Prompts : MayCall /\ Call_createSession(prompt)
    \/ \E id \in StoreIds : MayCall /\ Call_updateSession(id, Renamed)
    \/ \E id \in StoreIds, c \in StatusCalls :
          MayCall /\ Call_updateSessionStatus(id, c[1], c[2])
    \/ \E id \in StoreIds :
          MayCall /\ Call_addSessionMessage(id, "user", Content("text", Lit("note", 4), EmptyStr, 0))
    \/ \E id \in StoreIds : MayCall /\ Call_updateSessionMetrics(id, SessionMetrics)
    \/ \E id \in StoreIds : MayCall /\ Call_deleteSession(id)
    \/ \E id \in StoreIds :
          MayCall /\ Call_createSubAgent(id, Lit("linter", 6), Lit("lint", 4))
    \/ \E id \in StoreIds : MayCall /\ Call_updateSubAgent(id, Renamed)
    \/ \E id \in StoreIds :
          MayCall /\ Call_updateSubAgentStatus(id, "completed", None, Some(Lit("done", 4)))
    \/ \E id \in StoreIds :
          MayCall /\ Call_addSubAgentMessage(id, "assistant", Content("text", Lit("note", 4), EmptyStr, 0))
    \/ \E id \in StoreIds : MayCall /\ Call_updateSubAgentMetrics(id, SubAgentMetrics)
    \/ \E id \in StoreIds : MayCall /\ Call_deleteSubAgent(id)
    \/ MayCall /\ Call_clear
    \/ \E ok \in BOOLEAN : LoadCompletes(ok)

SpecStore == InitLoading /\ [][NextStore]_vars

\* the step is a call made on the store
IsCall == lastCall'.n = lastCall.n + 1

SessionWriters ==
    {"updateSession", "updateSessionStatus", "addSessionMessage", "updateSessionMetrics"}
SubAgentWriters ==
    {"updateSubAgent", "updateSubAgentStatus", "addSubAgentMessage", "updateSubAgentMetrics"}

\* the call of the step is a write to a session or sub-agent id that is not stored
WriteToAbsentId ==
    /\ IsCall
    /\ \/ lastCall'.op \in SessionWriters /\ lastCall'.id \notin DOMAIN sessions
       \/ lastCall'.op \in SubAgentWriters /\ lastCall'.id \notin DOMAIN subAgents

\* C16: updateSession, updateSessionStatus, addSessionMessage,
\* updateSessionMetrics, updateSubAgent, updateSubAgentStatus,
\* addSubAgentMessage and updateSubAgentMetrics, called with an id that is
\* not stored, return null or nothing, leave every session and sub-agent
\* unchanged and schedule no save.
C16_AbsentIdWritesAreNoOps ==
    [][WriteToAbsentId
       => /\ lastResult' \in {"null", "undefined"}
          /\ UNCHANGED <<sessions, subAgents, saveTimeout, timers, nextId>>]_vars

\* C16 witness: a store filled by the load, with no save scheduled, after a
\* sub-agent write to an id that is not stored.
C16_Witness ==
    /\ lastCall.op = "updateSubAgentMetrics"
    /\ lastCall.id \notin DOMAIN subAgents
    /\ sessions # <<>> /\ subAgents # <<>>
    /\ saveTimeout = "null"

\* the step is a call of deleteSession on a stored session
DeletesStored(id) ==
    IsCall /\ lastCall'.op = "deleteSession" /\ lastCall'.id = id /\ id \in DOMAIN sessions

\* right after deleteSession(id) the store holds neither the session nor a
\* sub-agent whose parent is id
Cascade ==
    \A id \in DOMAIN sessions :
        DeletesStored(id)
        => /\ id \notin DOMAIN sessions'
           /\ \A a \in DOMAIN subAgents' : subAgents'[a].sessionId # id

SessionRemoved == ~(DOMAIN sessions \subseteq DOMAIN sessions')

\* C17 as stated: deleteSession(id) on a stored session removes it and every
\* sub-agent created under it, and no other operation removes a session.
C17_OnlyDeleteSessionRemoves ==
    [][/\ Cascade
       /\ SessionRemoved => (IsCall /\ lastCall'.op = "deleteSession")]_vars

\* C17 amended: deleteSession(id) on a stored session removes it and every
\* sub-agent created under it, and no operation other than deleteSession and
\* clear removes a session.
C17_DeleteSessionCascades ==
    [][/\ Cascade
       /\ SessionRemoved => (IsCall /\ lastCall'.op \in {"deleteSession", "clear"})]_vars

\* C17 witness: the loaded session was deleted and its sub-agent went with
\* it, while a sub-agent that was not created under it stayed.
C17_Witness ==
    /\ lastCall.op = "deleteSession" /\ lastResult = "true"
    /\ lastCall.id \in DOMAIN PriorDisk.sessions
    /\ lastCall.id \notin DOMAIN sessions
    /\ DOMAIN subAgents \cap DOMAIN PriorDisk.subAgents = {}
    /\ subAgents # <<>>

\* the step is a call that changes the stored sessions or sub-agents
IsMutation == IsCall /\ <<sessions, subAgents>>' # <<sessions, subAgents>>

\* exactly one save timer is pending, the one of the handle
SavePending(handle, count) == handle = "pending" /\ count = 1

\* C19 as stated: every store operation that changes the stored sessions or
\* sub-agents schedules a save: after it a save timer is pending.
C19_EveryMutationSchedulesSave ==
    [][IsMutation => SavePending(saveTimeout', timers')]_vars

\* C19 amended: every store operation other than clear that changes the
\* stored sessions or sub-agents schedules a save: after it a save timer is
\* pending.
C19_MutationsButClearScheduleSave ==
    [][(IsMutation /\ lastCall'.op # "clear") => SavePending(saveTimeout', timers')]_vars

\* C19 witness: the store was filled by the load, with no save scheduled,
\* and the first change made to it since, a sub-agent created under the
\* loaded session, left a save pending.
C19_Witness ==
    /\ lastCall.op = "createSubAgent" /\ lastCall.n = 1
    /\ lastCall.id \in DOMAIN subAgents
    /\ subAgents[lastCall.id].sessionId \in DOMAIN PriorDisk.sessions
    /\ SavePending(saveTimeout, timers)

-----------------------------------------------------------------------------
(* SpecDurability: calls on the store, the save timer, flush and the load, *)
(* with saves and loads that may fail.                                      *)

NextDurability ==
    \/ \E prompt \in Prompts : MayCall /\ Call_createSession(prompt)
    \/ \E id \in StoreIds : MayCall /\ Call_getSession(id)
    \/ \E id \in StoreIds :
          MayCall /\ Call_addSessionMessage(id, "user", Content("text", Lit("note", 4), EmptyStr, 0))
    \/ \E id \in StoreIds : MayCall /\ Call_deleteSession(id)
    \/ \E id \in StoreIds :
          MayCall /\ Call_createSubAgent(id, Lit("linter", 6), Lit("lint", 4))
    \/ MayCall /\ Call_clear
    \/ \E ok \in BOOLEAN : MayCall /\ Call_flush(ok)
    \/ MayCall /\ Call_ensureLoaded
    \/ \E ok \in BOOLEAN : SaveTimerFires(ok)
    \/ \E ok \in BOOLEAN : LoadCompletes(ok)

SpecDurability == InitLoading /\ [][NextDurability]_vars

\* the file holds what the maps hold
Saved == disk.sessions = sessions /\ disk.subAgents = subAgents

\* C18: at most one save timer is pending at any time; when the timer left
\* by a burst of mutations fires, one save is made, of the state the store
\* is in then, and no timer is left; flush clears the pending timer and
\* saves at once.
C18_OneTimerOneSave ==
    /\ [](timers <= 1)
    /\ [][SaveTimerFires(TRUE)
          => /\ Saved'
             /\ disk'.writes = disk.writes + 1
             /\ timers' = 0]_vars
    /\ [][Call_flush(TRUE)
          => /\ Saved'
             /\ disk'.writes = disk.writes + 1
             /\ timers' = 0 /\ saveTimeout' = "null"]_vars

\* C18 witness: a burst of three mutations, then the timer fired: the
\* file was written once and holds the effect of all three.
C18_Witness ==
    /\ lastCall.n = 3 /\ lastCall.op = "addSessionMessage"
    /\ disk.writes = 1 /\ Saved
    /\ saveTimeout = "fired" /\ timers = 0
    /\ \E id \in DOMAIN sessions :
          Len(sessions[id].messages) = 1 /\ Len(sessions[id].subAgents) = 1

\* C20: a failure of the adapter's load or save is never raised or
\* rejected to the caller of a store operation: no call rejects, a failed
\* save leaves the sessions and sub-agents as they are, and so does a failed
\* load (the store stays empty and usable).
C20_AdapterFailuresAreSwallowed ==
    /\ [](lastResult # "rejected")
    /\ [][(SaveTimerFires(FALSE) \/ Call_flush(FALSE) \/ LoadCompletes(FALSE))
          => UNCHANGED <<sessions, subAgents>>]_vars

\* C40: when a call of ensureLoaded() resolves, the load the constructor
\* started is no longer in flight, so the records it reads from the database
\* file are in the maps.
C40_EnsureLoadedAwaitsLoad ==
    [][Call_ensureLoaded => ~loading']_vars

-----------------------------------------------------------------------------
(* SpecPair: the runs of several sessions, interleaved event by event.     *)

PairEvents ==
    {AssistantEvent(Lit("hello", 5), Some(Large)),
     ToolUseEvent("Task", Some(Lit("test-runner", 11)), Some(Lit("run the tests", 13))),
     SuccessEvent(Some(Large), Some(2000), Some(Token))}

\* two sessions, whatever MaxSessions is
NextPair ==
    \/ \E prompt \in Prompts : Started < 2 /\ startSession(prompt)
    \/ \E id \in AllIds, prompt \in Prompts :
          Len(runs) < MaxRuns + 1 /\ continueSession(id, prompt, TRUE)
    \/ \E r \in Running, message \in PairEvents :
          TotalFed < MaxScenarioEvents /\ NextEvent(r, message)
    \/ \E id \in AllIds : DeleteSession(id)

SpecPair == Init /\ [][NextPair]_vars

\* the sessions a step works on: those of the runs that moved or were
\* started in it, and those it deleted
Touched ==
    {runs[r].sessionId : r \in {x \in 1..Len(runs) : runs'[x] # runs[x]}}
    \cup {runs'[r].sessionId : r \in (Len(runs) + 1)..Len(runs')}
    \cup (DOMAIN sessions \ DOMAIN sessions')

\* the sub-agents stored under a session
SubAgentsOf(id) ==
    [a \in {x \in DOMAIN subAgents : subAgents[x].sessionId = id} |-> subAgents[a]]

\* C21: a step of the run of a session, and a lifecycle call on a session,
\* leaves every other session as it was: its record with its fields and its
\* log, and the sub-agents stored under it.
C21_OtherSessionsUntouched ==
    [][\A b \in DOMAIN sessions \ Touched :
          /\ b \in DOMAIN sessions'
          /\ sessions'[b] = sessions[b]
          /\ SubAgentsOf(b)' = SubAgentsOf(b)]_vars

\* two sessions whose runs have both processed events, one of them with a
\* sub-agent, the other completed
C21_Witness ==
    /\ \E r1, r2 \in 1..Len(runs) :
          /\ runs[r1].sessionId # runs[r2].sessionId
          /\ runs[r1].fed # <<>>
          /\ runs[r2].fed # <<>>
    /\ \E a, b \in DOMAIN sessions :
          /\ a # b
          /\ sessions[a].status = "completed"
          /\ sessions[b].status = "active"
          /\ sessions[b].subAgents # <<>>

-----------------------------------------------------------------------------
(* SpecChannel: two subscriptions with their polling and heartbeat         *)
(* intervals, over a session that runs and may be deleted.                 *)

MaxHeartbeats == 1

ChannelEvents == {AssistantEvent(Lit("hello", 5), Some(Large))}

MayBeat(s) == CountOf(s.events, "heartbeat") < MaxHeartbeats

\* one session and one run, whatever MaxSessions and MaxRuns are
NextChannel ==
    \/ \E prompt \in Prompts : runs = <<>> /\ startSession(prompt)
    \/ \E r \in Running, message \in ChannelEvents : MayFeed /\ NextEvent(r, message)
    \/ \E id \in AllIds : DeleteSession(id)
    \/ \E id \in AllIds : Subscribe(id)
    \/ PollTick
    \/ PollFails
    \/ MayBeat(sub) /\ Heartbeat
    \/ Cancel
    \/ \E id \in AllIds : SubscribePeer(id)
    \/ PollTickPeer
    \/ MayBeat(peer) /\ HeartbeatPeer
    \/ CancelPeer

SpecChannel == Init /\ [][NextChannel]_vars

\* the controller of the subscription takes no more payloads
Closed(s) == s.state \in {"closed", "cancelled"}

\* C22: a poll tick that finds the subscribed session gone closes the
\* channel, and once a channel is closed, by that, by a failed poll or by
\* cancel, no payload is added to what was delivered on it.
C22_ClosedChannelDeliversNothing ==
    /\ [][PollTick /\ sub.sessionId \notin DOMAIN sessions => sub'.state = "closed"]_vars
    /\ [][PollTickPeer /\ peer.sessionId \notin DOMAIN sessions
             => peer'.state = "closed"]_vars
    /\ [][Closed(sub) => sub'.events = sub.events]_vars
    /\ [][Closed(peer) => peer'.events = peer.events]_vars

\* the session was deleted under an open subscription, the next poll closed
\* the channel, and the heartbeat that fired after that found it closed
C22_Witness ==
    /\ sub.state = "closed"
    /\ sub.sessionId \notin DOMAIN sessions
    /\ sub.events[1].type = "init"
    /\ sub.intervalId = "cleared"
    /\ sub.heartbeatId = "cleared"
    /\ CountOf(sub.events, "heartbeat") = 0

\* both intervals of the subscription are cleared; an interval that is
\* cleared does not fire (the guards of PollTick and Heartbeat)
TasksCancelled(s) == s.intervalId = "cleared" /\ s.heartbeatId = "cleared"

\* C23: after cancel the polling interval and the heartbeat interval of the
\* subscription are both cleared, so that neither callback runs again, and
\* the cancel of one subscription leaves the other one as it is.
C23_CancelStopsBothTasks ==
    /\ [](sub.state = "cancelled" => TasksCancelled(sub))
    /\ [](peer.state = "cancelled" => TasksCancelled(peer))
    /\ [][sub.state = "cancelled" => ~(PollTick \/ Heartbeat)]_vars
    /\ [][Cancel => peer' = peer]_vars
    /\ [][CancelPeer => sub' = sub]_vars

\* one subscription is cancelled, the other one of the same session still
\* has both tasks and has delivered a log entry the cancelled one never got
C23_Witness ==
    /\ sub.state = "cancelled"
    /\ peer.state = "open"
    /\ peer.sessionId = sub.sessionId
    /\ peer.intervalId = "active"
    /\ peer.heartbeatId = "active"
    /\ peer.lastMessageCount > sub.lastMessageCount
    /\ CountOf(peer.events, "heartbeat") > 0

-----------------------------------------------------------------------------
(* SpecLog: a consumer appends entries to a session and reads it back.     *)

\* addSessionMessage called by a consumer that notes in held.seen what it
\* appended, and to which session
AppendNoted(id, m) ==
    /\ id \in DOMAIN sessions
    /\ held.op = "none" \/ held.id = id
    /\ SetStore(addSessionMessage(Store, id, m.type, m.content, m.subtype, m.metadata))
    /\ lastCall' = [op |-> "addSessionMessage", id |-> id, n |-> lastCall.n + 1]
    /\ lastResult' = "undefined"
    /\ held' = [held EXCEPT !.op = "addSessionMessage", !.id = id,
                            !.n = lastCall.n + 1, !.seen = Append(@, m)]
    /\ UNCHANGED <<runs, sub, peer, view, disk, loading>>

LogInputs ==
    {[type |-> "user", subtype |-> None,
      content |-> Content("text", Lit("first", 5), EmptyStr, 0), metadata |-> None],
     [type |-> "tool", subtype |-> Some("tool_use"),
      content |-> Content("text", Lit("second", 6), EmptyStr, 0),
      metadata |-> Some([EmptyMeta EXCEPT !.tokens = Some(7)])]}

NextLog ==
    \/ LoadCompletes(TRUE)
    \/ \E prompt \in Prompts : MayCall /\ Call_createSession(prompt)
    \/ \E id \in StoreIds, m \in LogInputs : MayCall /\ AppendNoted(id, m)
    \/ \E id \in StoreIds : MayCall /\ Call_getSession(id)
    \/ \E id \in StoreIds, c \in StatusCalls :
          MayCall /\ Call_updateSessionStatus(id, c[1], c[2])
    \/ \E id \in StoreIds :
          MayCall /\ Call_createSubAgent(id, Lit("test-runner", 11), Lit("run the tests", 13))

SpecLog == InitLoading /\ [][NextLog]_vars

\* entry e of a log is input m, as it was given
SameEntry(e, m) ==
    /\ e.type = m.type
    /\ e.subtype = m.subtype
    /\ e.content = m.content
    /\ e.metadata = m.metadata

\* C24: the log getSession returns for a session is the entries appended
\* to it with addSessionMessage: as many, in the order of the calls, each
\* with the type, subtype, content and metadata of its call.
C24_ReadReturnsAppended ==
    held.op = "addSessionMessage" /\ held.id \in DOMAIN sessions =>
        LET read == Val(getSession(Store, held.id)).messages
        IN /\ Len(read) = Len(held.seen)
           /\ \A i \in 1..Len(read) : SameEntry(read[i], held.seen[i])

\* two different entries were appended, and the session was then read
C24_Witness ==
    /\ held.op = "addSessionMessage"
    /\ Len(held.seen) = 2
    /\ held.seen[1] # held.seen[2]
    /\ lastCall.op = "getSession"
    /\ lastCall.id = held.id
    /\ lastResult = "session"

-----------------------------------------------------------------------------
(* SpecReload: a process loads the file, works, flushes and exits; the     *)
(* next process loads what it left.                                        *)

\* the process exits after a flush that resolved and a new one constructs
\* its store: empty maps, no timer, the load in flight.  held.seen keeps
\* what the store of the old process held
Summary(sess, subs) ==
    [sessions |-> [id \in DOMAIN sess |->
                      [status |-> sess[id].status, count |-> Len(sess[id].messages)]],
     subAgents |-> [id \in DOMAIN subs |->
                      [status |-> subs[id].status, count |-> Len(subs[id].messages)]]]

Restart ==
    /\ ~loading
    /\ lastCall.op = "flush"
    /\ lastResult = "resolved"
    /\ sessions' = <<>>
    /\ subAgents' = <<>>
    /\ saveTimeout' = "null"
    /\ timers' = 0
    /\ loading' = TRUE
    /\ lastCall' = [op |-> "constructor", id |-> 0, n |-> lastCall.n + 1]
    /\ lastResult' = "none"
    /\ held' = [held EXCEPT !.op = "constructor", !.n = lastCall.n + 1,
                            !.seen = Summary(sessions, subAgents)]
    /\ UNCHANGED <<nextId, runs, sub, peer, view, disk>>

\* the files a process may find: the sub-agent of the second one completed
\* after it was created, the session of the third one has a log and a
\* prompt that starts like a date
CompletedStore ==
    updateSubAgentStatus(PriorStore, 0, "completed", None, Some(Lit("all green", 9)))

DatedStore ==
    addSessionMessage(
        updateSessionStatus(
            createSession([sessions |-> <<>>, subAgents |-> <<>>, saveTimeout |-> "null",
                           nextId |-> -2, timers |-> 0],
                          Lit("2026-01-05T09:00 stand-up notes", 31)),
            -2, "completed", None),
        -2, "user", Content("text", Lit("2026-01-05T09:00 stand-up notes", 31), EmptyStr, 0),
        None, None)

Snapshots ==
    {[sessions |-> st.sessions, subAgents |-> st.subAgents, writes |-> 0] :
        st \in {PriorStore, CompletedStore, DatedStore}}

InitReload ==
    /\ sessions = <<>>
    /\ subAgents = <<>>
    /\ saveTimeout = "null"
    /\ nextId = 1
    /\ runs = <<>>
    /\ lastResult = "none"
    /\ sub = NoStream
    /\ peer = NoStream
    /\ held = NoHandle
    /\ view = NoView
    /\ timers = 0
    /\ disk \in Snapshots
    /\ loading = TRUE
    /\ lastCall = NoCall

NextReload ==
    \/ LoadCompletes(TRUE)
    \/ MayCall /\ Call_flush(TRUE)
    \/ MayCall /\ Restart
    \/ \E id \in StoreIds :
          MayCall /\ Call_updateSubAgentStatus(id, "completed", None, Some(Lit("all green", 9)))
    \/ \E id \in StoreIds :
          MayCall /\ Call_addSessionMessage(id, "user", Content("text", Lit("more", 4), EmptyStr, 0))
    \/ \E id \in StoreIds :
          MayCall /\ Call_createSubAgent(id, Lit("test-runner", 11), Lit("run the tests", 13))

SpecReload == InitReload /\ [][NextReload]_vars

\* the new process has loaded the file and no call was made on its store
Reloaded == held.op = "constructor" /\ lastCall.op = "constructor" /\ ~loading

\* C25: the records a process holds after it loaded the file its
\* predecessor saved are the records the predecessor held: the same session
\* and sub-agent ids, each with the same status and as many messages.
C25_ReloadKeepsRecords ==
    Reloaded => Summary(sessions, subAgents) = held.seen

\* reloaded, with a sub-agent that completed after it was created and is
\* still listed as running in its session
C25_Witness ==
    /\ Reloaded
    /\ \E z \in DOMAIN sessions : \E i \in DOMAIN sessions[z].subAgents :
          LET a == sessions[z].subAgents[i]
          IN /\ a.status = "running"
             /\ a.id \in DOMAIN subAgents
             /\ subAgents[a.id].status = "completed"

-----------------------------------------------------------------------------
(* SpecCopies: a consumer changes, in place, a value a store operation     *)
(* returned to it.  held.shares names the parts of that value that are the *)
(* very objects the store holds: "record" the returned object, "messages"  *)
(* its messages array, "subAgents" its subAgents array.                    *)

\* a store operation returns a value to the consumer
Returns(op, id, st, result, shares) ==
    /\ SetStore(st)
    /\ lastCall' = [op |-> op, id |-> id, n |-> lastCall.n + 1]
    /\ lastResult' = result
    /\ held' = [op |-> op, id |-> id, n |-> lastCall.n + 1, shares |-> shares,
                seen |-> <<>>]
    /\ UNCHANGED <<runs, sub, peer, view, disk, loading>>

\* createSession returns the object it has just put into the map
Read_createSession(prompt) ==
    Returns("createSession", nextId, createSession(Store, prompt), "session",
            {"record", "messages", "subAgents"})

\* getSession returns a spread of the stored session with a fresh subAgents
\* array: the messages array is the stored one
Read_getSession(id) ==
    /\ id \in DOMAIN sessions
    /\ Returns("getSession", id, Store, "session", {"messages"})

\* getSubAgent returns the object the map holds
Read_getSubAgent(id) ==
    /\ id \in DOMAIN subAgents
    /\ Returns("getSubAgent", id, Store, "subAgent", {"record", "messages"})

\* the value the last call returned is still in the consumer's hands
Holding == held.op \in {"createSession", "getSession", "getSubAgent"} /\ held.n = lastCall.n

Changed == [held EXCEPT !.op = "changed"]

\* the consumer assigns the description of the returned record
ConsumerSetsField ==
    /\ Holding
    /\ held' = Changed
    /\ IF "record" \notin held.shares
       THEN UNCHANGED <<sessions, subAgents>>
       ELSE IF held.op = "getSubAgent"
       THEN /\ subAgents' = [subAgents EXCEPT ![held.id].description = Lit("edited", 6)]
            /\ UNCHANGED sessions
       ELSE /\ sessions' = [sessions EXCEPT ![held.id].description = Lit("edited", 6)]
            /\ UNCHANGED subAgents
    /\ UNCHANGED <<saveTimeout, nextId, timers, runs, lastResult, sub, peer, view, durability>>

\* the consumer pushes an entry onto the messages of the returned record
ConsumerPushesMessage ==
    /\ Holding
    /\ held' = Changed
    /\ LET entry == newMessage("user", Content("text", Lit("edited", 6), EmptyStr, 0),
                               None, None)
       IN IF "messages" \notin held.shares
          THEN UNCHANGED <<sessions, subAgents>>
          ELSE IF held.op = "getSubAgent"
          THEN /\ subAgents' = [subAgents EXCEPT ![held.id].messages =
                                   Append(@, newSubAgentMessage("user", entry.content, None))]
               /\ UNCHANGED sessions
          ELSE /\ sessions' = [sessions EXCEPT ![held.id].messages = Append(@, entry)]
               /\ UNCHANGED subAgents
    /\ UNCHANGED <<saveTimeout, nextId, timers, runs, lastResult, sub, peer, view, durability>>

\* the consumer empties the subAgents of the returned session
ConsumerEmptiesSubAgents ==
    /\ Holding
    /\ held.op # "getSubAgent"
    /\ held' = Changed
    /\ IF "subAgents" \notin held.shares
       THEN UNCHANGED sessions
       ELSE sessions' = [sessions EXCEPT ![held.id].subAgents = <<>>]
    /\ UNCHANGED <<subAgents, saveTimeout, nextId, timers, runs, lastResult, sub, peer, view,
                   durability>>

NextCopies ==
    \/ LoadCompletes(TRUE)
    \/ \E prompt \in Prompts : MayCall /\ Read_createSession(prompt)
    \/ \E id \in StoreIds : MayCall /\ Read_getSession(id)
    \/ \E id \in StoreIds : MayCall /\ Read_getSubAgent(id)
    \/ \E id \in StoreIds :
          MayCall /\ Call_createSubAgent(id, Lit("test-runner", 11), Lit("run the tests", 13))
    \/ ConsumerSetsField
    \/ ConsumerPushesMessage
    \/ ConsumerEmptiesSubAgents

SpecCopies == InitLoading /\ [][NextCopies]_vars

\* C26: what a create or read operation of the store returns is a copy: a
\* consumer that changes the returned record, its messages or its
\* sub-agent list leaves the records of the store as they are.
C26_ReturnedValuesAreCopies ==
    [][held.op # "changed" /\ held'.op = "changed" => UNCHANGED <<sessions, subAgents>>]_vars

-----------------------------------------------------------------------------
(* SpecStatus: status updates on sessions that have metrics and a log.     *)

StatusInputs ==
    {<<"active", None>>, <<"completed", None>>,
     <<"error", Some(Lit("boom", 4))>>, <<"error", Some(EmptyStr)>>}

NextStatus ==
    \/ LoadCompletes(TRUE)
    \/ \E id \in StoreIds, c \in StatusInputs :
          MayCall /\ Call_updateSessionStatus(id, c[1], c[2])
    \/ \E id \in StoreIds : MayCall /\ Call_updateSessionMetrics(id, SessionMetrics)
    \/ \E id \in StoreIds :
          MayCall /\ Call_addSessionMessage(id, "user", Content("text", Lit("more", 4), EmptyStr, 0))

SpecStatus == InitLoading /\ [][NextStatus]_vars

\* the fields a status update has no business with
StatusFrame(z) ==
    <<z.contextUsed, z.maxContext, z.totalTokens, z.totalCost, z.sdkSessionId,
      z.messages, z.subAgents>>

\* C27: updateSessionStatus(id, status, error) on a stored session sets the
\* status, stamps completedAt when the status is completed or error and
\* leaves it alone otherwise, records the error string when one is given,
\* and leaves the metrics, the continuation token, the log and the
\* sub-agent list as they were.
C27_StatusUpdateFrame ==
    [][\A id \in DOMAIN sessions, c \in StatusInputs :
          Call_updateSessionStatus(id, c[1], c[2]) =>
              /\ sessions'[id].status = c[1]
              /\ sessions'[id].completedAt =
                    IF Terminal(c[1]) THEN Some(Date) ELSE sessions[id].completedAt
              /\ IsSome(c[2]) => sessions'[id].error = c[2]
              /\ StatusFrame(sessions'[id]) = StatusFrame(sessions[id])]_vars

-----------------------------------------------------------------------------
(* SpecContinue: continuations with different prompts, of sessions whose   *)
(* continuation token changes from one result to the next.                 *)

ContinuePrompts == {Lit("and the tests", 13), Lit("now the docs", 12)}
LaterToken == Lit("sdk-session-2", 13)

ContinueEvents ==
    {AssistantEvent(Lit("hello", 5), Some(Large)),
     SuccessEvent(Some(Large), Some(2000), Some(Token)),
     SuccessEvent(Some(Large), Some(2000), Some(LaterToken))}

NextContinue ==
    \/ \E prompt \in Prompts : MayStart /\ startSession(prompt)
    \/ \E id \in AllIds, prompt \in ContinuePrompts, repoFound \in BOOLEAN :
          MayContinue /\ continueSession(id, prompt, repoFound)
    \/ \E r \in Running, message \in ContinueEvents : MayFeed /\ NextEvent(r, message)
    \/ \E r \in Running : StreamEnds(r)

SpecContinue == Init /\ [][NextContinue]_vars

\* C28: a continueSession(id, prompt) that succeeds sets the status to
\* active, appends one user entry whose content is the prompt, and starts
\* one resume run with the token the session held when the call was made;
\* the new run has processed nothing when the step ends, so the status and
\* the entry come before every entry the run produces.
C28_ContinueStartsResumeRun ==
    [][\A id \in AllIds, prompt \in ContinuePrompts, repoFound \in BOOLEAN :
          (continueSession(id, prompt, repoFound) /\ lastResult' = "success")
          => /\ IsSome(sessions[id].sdkSessionId)
             /\ sessions'[id].status = "active"
             /\ sessions'[id].messages =
                   Append(sessions[id].messages,
                          newMessage("user", Content("text", prompt, EmptyStr, 0), None, None))
             /\ runs' = Append(runs, newRun(id, sessions[id].sdkSessionId))
             /\ runs'[Len(runs')].fed = <<>>]_vars

\* a session that completed with the later token was continued: the resume
\* run holds that token, the log ends with the prompt, the run is yet to
\* process its first event
C28_Witness ==
    /\ lastResult = "success"
    /\ Len(runs) = 2
    /\ runs[2].resume = Some(LaterToken)
    /\ runs[2].fed = <<>>
    /\ LET z == sessions[runs[2].sessionId]
       IN /\ z.status = "active"
          /\ z.messages[Len(z.messages)].type = "user"
          /\ z.messages[Len(z.messages)].content.a \in ContinuePrompts
          /\ Len(z.messages) >= 2

-----------------------------------------------------------------------------
(* SpecComplete: poll ticks between the events of runs whose results       *)
(* report different usage, cost and token.                                 *)

CompleteEvents ==
    {AssistantEvent(Lit("hello", 5), Some(Small)),
     SuccessEvent(Some(Large), Some(2000), Some(Token)),
     SuccessEvent(Some(Small), Some(1000), Some(LaterToken))}

\* one session, whatever MaxSessions is
NextComplete ==
    \/ \E prompt \in Prompts : runs = <<>> /\ startSession(prompt)
    \/ \E id \in AllIds, prompt \in Prompts :
          MayContinue /\ continueSession(id, prompt, TRUE)
    \/ \E r \in Running, message \in CompleteEvents : MayFeed /\ NextEvent(r, message)
    \/ \E id \in AllIds : Subscribe(id)
    \/ PollTick

SpecComplete == Init /\ [][NextComplete]_vars

\* the indices of the result entries of a log
ResultEntries(log) == {j \in DOMAIN log : log[j].type = "result"}

Last(S) == CHOOSE j \in S : \A k \in S : k <= j

\* a completed session holds what its last success result reported: the
\* cost and the token, and the token counts unless a later assistant turn
\* has overwritten them
Settled(z) ==
    z.status = "completed" =>
        /\ ResultEntries(z.messages) # {}
        /\ LET j == Last(ResultEntries(z.messages))
               m == Val(z.messages[j].metadata)
               later == {k \in DOMAIN z.messages :
                            /\ k > j
                            /\ z.messages[k].type = "assistant"
                            /\ IsSome(Val(z.messages[k].metadata).tokens)}
           IN /\ z.messages[j].subtype = Some("success")
              /\ z.totalCost = OrZero(m.total_cost)
              /\ IsSome(m.session_id) => z.sdkSessionId = m.session_id
              /\ later = {} => /\ z.totalTokens = TokenSum(m.usage)
                               /\ z.contextUsed = TokenSum(m.usage)

\* the payloads a step enqueues on the subscription
Enqueued == {sub'.events[i] : i \in (Len(sub.events) + 1)..Len(sub'.events)}

\* C32: whenever a poll tick may look, a session whose status is completed
\* already holds the totals and the token of the success result that
\* completed it, and a complete payload carries the status, metrics and
\* token the store holds at that moment.
C32_CompleteCarriesFinalMetrics ==
    /\ [](\A id \in DOMAIN sessions : Settled(sessions[id]))
    /\ [][\A e \in Enqueued :
             e.type = "complete" => e.session = Some(Snapshot(sessions[sub.sessionId]))]_vars

\* a complete payload of a run that spoke and then succeeded: it carries
\* the totals of the result, not those of the assistant turn
C32_Witness ==
    /\ sub.state = "open"
    /\ \E i \in DOMAIN sub.events :
          /\ sub.events[i].type = "complete"
          /\ Val(sub.events[i].session).status = "completed"
          /\ Val(sub.events[i].session).totalTokens = TokenSum(Some(Large))
          /\ Val(sub.events[i].session).totalCost = 2000
          /\ Val(sub.events[i].session).sdkSessionId = Some(Token)
    /\ \E j \in DOMAIN Log : Log[j].type = "assistant"

-----------------------------------------------------------------------------
(* SpecEvents: one run of one session fed a short stream that mixes spawn  *)
(* events, tool results, generic tool events, assistant turns and results. *)

MaxNormalizerEvents == 4

NormalizerEvents ==
    {ToolUseEvent("Task", Some(Lit("test-runner", 11)), Some(Lit("run the tests", 13))),
     ToolResultEvent("Task", StringOutput(7)),
     ToolResultEvent("Task", NoOutput),
     ToolUseEvent("Bash", None, None),
     ToolResultEvent("Bash", StringOutput(7)),
     AssistantEvent(EmptyStr, None),
     AssistantEvent(Lit("hello", 5), Some(Small)),
     SuccessEvent(Some(Large), Some(2000), Some(Token))}

\* one session and one run, whatever MaxSessions and MaxRuns are
NextEvents ==
    \/ \E prompt \in Prompts : runs = <<>> /\ startSession(prompt)
    \/ \E r \in Running, message \in NormalizerEvents :
          TotalFed < MaxNormalizerEvents /\ NextEvent(r, message)

SpecEvents == Init /\ [][NextEvents]_vars

IsSpawn(message) ==
    message.type = "stream_event" /\ message.event_type = "tool_use"
    /\ message.tool_name = "Task"
IsTaskResult(message) ==
    message.type = "stream_event" /\ message.event_type = "tool_result"
    /\ message.tool_name = "Task"
IsToolResult(message) ==
    message.type = "stream_event" /\ message.event_type = "tool_result"

\* the sub-agents of run r's session that are running and are not the run's
\* current one: opened by an earlier spawn and replaced as the marker
Replaced(r) ==
    {b \in DOMAIN subAgents :
        /\ subAgents[b].sessionId = runs[r].sessionId
        /\ subAgents[b].status = "running"
        /\ runs[r].currentSubAgentId # Some(b)}

\* C33: a spawn event processed while a sub-agent is open creates a second
\* running sub-agent, makes it the current one and leaves the first as it
\* was; the next Task tool-result sets the current (second) sub-agent to
\* completed, changes no other sub-agent and clears the marker; a tool-result
\* processed while no sub-agent is open changes no sub-agent, so the replaced
\* one stays running.
C33_SecondSpawnReplacesMarker ==
    [][\A r \in Running, message \in NormalizerEvents :
          (NextEvent(r, message) /\ runs[r].sessionId \in DOMAIN sessions)
          => LET cur == runs[r].currentSubAgentId
             IN /\ (IsSpawn(message) /\ IsSome(cur))
                   => \E a \in DOMAIN subAgents' \ DOMAIN subAgents :
                         /\ DOMAIN subAgents' = DOMAIN subAgents \cup {a}
                         /\ subAgents'[a].status = "running"
                         /\ runs'[r].currentSubAgentId = Some(a)
                         /\ \A b \in DOMAIN subAgents : subAgents'[b] = subAgents[b]
                /\ (IsTaskResult(message) /\ IsSome(cur) /\ Replaced(r) # {})
                   => /\ subAgents'[Val(cur)].status = "completed"
                      /\ \A b \in DOMAIN subAgents \ {Val(cur)} :
                            subAgents'[b] = subAgents[b]
                      /\ runs'[r].currentSubAgentId = None
                /\ (IsToolResult(message) /\ ~IsSome(cur))
                   => subAgents' = subAgents]_vars

IsSuccess(message) == message.type = "result" /\ message.subtype = Some("success")

\* C34: after a step that processes a success result under a stored session,
\* the session is completed and no sub-agent of that session has status
\* running.
C34_NoRunningSubAgentAtCompletion ==
    [][\A r \in Running, message \in NormalizerEvents :
          (NextEvent(r, message) /\ IsSuccess(message)
           /\ runs[r].sessionId \in DOMAIN sessions)
          => /\ sessions'[runs[r].sessionId].status = "completed"
             /\ \A a \in DOMAIN subAgents' :
                   subAgents'[a].sessionId = runs[r].sessionId
                   => subAgents'[a].status # "running"]_vars

IsAssistant(message) == message.type = "assistant"
IsToolUse(message) ==
    message.type = "stream_event" /\ message.event_type = "tool_use"

\* C35: a step that processes an assistant turn whose extracted text is
\* empty leaves the session log as it was; one whose text is non-empty
\* appends exactly one entry.
C35_AssistantLoggedOnlyWithText ==
    [][\A r \in Running, message \in NormalizerEvents :
          (NextEvent(r, message) /\ IsAssistant(message)
           /\ runs[r].sessionId \in DOMAIN sessions)
          => LET id == runs[r].sessionId
             IN IF Truthy(message.text)
                THEN Len(sessions'[id].messages) = Len(sessions[id].messages) + 1
                ELSE sessions'[id].messages = sessions[id].messages]_vars

\* C36: a step that processes a tool-use event of a tool other than Task
\* appends exactly one entry to the session log, whose content carries the
\* tool name, and leaves the sub-agents as they were.
C36_GenericToolUseLogged ==
    [][\A r \in Running, message \in NormalizerEvents :
          (NextEvent(r, message) /\ IsToolUse(message) /\ ~IsSpawn(message)
           /\ runs[r].sessionId \in DOMAIN sessions)
          => LET id == runs[r].sessionId
                 log == sessions'[id].messages
             IN /\ Len(log) = Len(sessions[id].messages) + 1
                /\ SubSeq(log, 1, Len(sessions[id].messages)) = sessions[id].messages
                /\ log[Len(log)].content.a.base = message.tool_name
                /\ subAgents' = subAgents]_vars

\* C37: a step that processes a tool-result event while the run has no open
\* sub-agent leaves every session (status, metrics, token, log) and every
\* sub-agent as they were, and the marker stays unset.
C37_UnmatchedToolResultIsNoOp ==
    [][\A r \in Running, message \in NormalizerEvents :
          (NextEvent(r, message) /\ IsToolResult(message)
           /\ ~IsSome(runs[r].currentSubAgentId))
          => /\ sessions' = sessions
             /\ subAgents' = subAgents
             /\ runs'[r].currentSubAgentId = None
             /\ runs'[r].pc = "running"]_vars

\* C37 witness: a spawn, the Task tool-result that closed it, then a second
\* Task tool-result processed with no sub-agent open: two log entries, one
\* completed sub-agent.
C37_Witness ==
    \E r \in 1..Len(runs) :
        /\ Len(runs[r].fed) = 3
        /\ IsSpawn(runs[r].fed[1])
        /\ runs[r].fed[2] = ToolResultEvent("Task", StringOutput(7))
        /\ IsTaskResult(runs[r].fed[3])
        /\ Len(sessions[runs[r].sessionId].messages) = 2
        /\ \A a \in DOMAIN subAgents : subAgents[a].status = "completed"
        /\ subAgents # <<>>

-----------------------------------------------------------------------------
(* SpecResult: success results with and without a session id, followed by  *)
(* continuations of the session they completed.                            *)

MaxResultEvents == 3

ResultEvents ==
    {AssistantEvent(Lit("hello", 5), Some(Small)),
     SuccessEvent(Some(Large), Some(2000), Some(Token)),
     SuccessEvent(Some(Small), Some(1000), Some(EmptyStr)),
     SuccessEvent(None, None, None),
     FailureEvent("error_max_turns", <<>>)}

\* one session and at most one continuation of it
NextResult ==
    \/ \E prompt \in Prompts : runs = <<>> /\ startSession(prompt)
    \/ \E id \in AllIds, prompt \in Prompts, repoFound \in BOOLEAN :
          Len(runs) < 2 /\ continueSession(id, prompt, repoFound)
    \/ \E r \in Running, message \in ResultEvents :
          TotalFed < MaxResultEvents /\ NextEvent(r, message)

SpecResult == Init /\ [][NextResult]_vars

\* the log of session id holds a success summary entry
Summarised(id) ==
    \E k \in DOMAIN sessions[id].messages :
        sessions[id].messages[k].content.tag = "session_completed"

\* what a success result leaves in session z, but for the token
Stamped(z, before, message) ==
    /\ z.status = "completed"
    /\ z.totalTokens = TokenSum(message.usage)
    /\ z.contextUsed = TokenSum(message.usage)
    /\ z.totalCost = OrZero(message.total_cost_usd)
    /\ Len(z.messages) = Len(before.messages) + 1
    /\ SubSeq(z.messages, 1, Len(before.messages)) = before.messages
    /\ z.messages[Len(z.messages)].type = "result"
    /\ z.messages[Len(z.messages)].content.tag = "session_completed"

\* C38 as stated: a step that processes a success result under a stored
\* session sets it to completed, overwrites totalTokens, totalCost and
\* contextUsed from the result, stores the result's session id as the token
\* and appends one success summary entry; and continueSession on a session
\* whose log holds a success summary is accepted.
C38_SuccessThenContinueAccepted ==
    [][/\ \A r \in Running, message \in ResultEvents :
            (NextEvent(r, message) /\ IsSuccess(message)
             /\ runs[r].sessionId \in DOMAIN sessions)
            => LET id == runs[r].sessionId
               IN /\ Stamped(sessions'[id], sessions[id], message)
                  /\ sessions'[id].sdkSessionId = message.session_id
       /\ \A id \in DOMAIN sessions, prompt \in Prompts :
            (continueSession(id, prompt, TRUE) /\ Summarised(id))
            => lastResult' = "success"]_vars

\* C38, amended: the success result stamps the session and appends the
\* summary as stated, and stores the result's session id only when it is a
\* non-empty string, leaving the stored token as it was otherwise; and
\* continueSession on a session whose log holds a success summary is
\* accepted exactly when a token is stored and the repository is found.
C38_SuccessStoresTokenIfAny ==
    [][/\ \A r \in Running, message \in ResultEvents :
            (NextEvent(r, message) /\ IsSuccess(message)
             /\ runs[r].sessionId \in DOMAIN sessions)
            => LET id == runs[r].sessionId
               IN /\ Stamped(sessions'[id], sessions[id], message)
                  /\ sessions'[id].sdkSessionId =
                        IF IsSome(message.session_id) /\ Truthy(Val(message.session_id))
                        THEN message.session_id
                        ELSE sessions[id].sdkSessionId
       /\ \A id \in DOMAIN sessions, prompt \in Prompts, repoFound \in BOOLEAN :
            (continueSession(id, prompt, repoFound) /\ Summarised(id))
            => (lastResult' = "success"
                  <=> (repoFound /\ IsSome(sessions[id].sdkSessionId)))]_vars

\* C38 witness: a success result with a session id completed the session,
\* and the continuation that followed was accepted: the resume run holds the
\* token and the user entry follows the summary.
C38_Witness ==
    /\ lastResult = "success"
    /\ Len(runs) = 2
    /\ runs[2].resume = Some(Token)
    /\ runs[2].fed = <<>>
    /\ LET z == sessions[runs[2].sessionId]
       IN /\ z.totalTokens = 150 /\ z.totalCost = 2000
          /\ z.sdkSessionId = Some(Token)
          /\ Len(z.messages) >= 2
          /\ z.messages[Len(z.messages) - 1].content.tag = "session_completed"
          /\ z.messages[Len(z.messages)].type = "user"

-----------------------------------------------------------------------------
(* SpecObserver: ConversationView, components/conversation-view.tsx, on    *)
(* the payloads of one subscription.  Every log entry of the model is      *)
(* stamped Date, so the entries of a log lie less than a second apart; the *)
(* observer's own clock reads Date or an instant a second or more away.    *)

MaxObserverEvents == 2

Later == "later"
ClientStamps == {Date, Later}

\* Math.abs(new Date(a).getTime() - new Date(b).getTime()) < 1000
Near(a, b) == a = b

\* the isDuplicate test of the message branch
isDuplicate(prev, message) ==
    \E i \in DOMAIN prev :
        /\ prev[i].type = message.type
        /\ prev[i].content = message.content
        /\ Near(prev[i].timestamp, message.timestamp)

\* eventSource.onmessage on the payload data, in the view v
onmessage(v, data) ==
    LET w == [v EXCEPT !.applied = @ + 1]
    IN IF data.type = "init"
       THEN [w EXCEPT !.messages = data.messages,
                      !.status = Val(data.session).status,
                      !.sdkSessionId = Val(data.session).sdkSessionId]
       ELSE IF data.type = "message"
       THEN [w EXCEPT !.messages = IF isDuplicate(@, data.messages[1]) THEN @
                                   ELSE Append(@, data.messages[1]),
                      !.status = Val(data.session).status]
       ELSE IF data.type = "complete"
       THEN [w EXCEPT !.status = Val(data.session).status,
                      !.sdkSessionId = Val(data.session).sdkSessionId]
       ELSE w

\* the next payload of the subscription reaches the observer
Receive ==
    /\ view.applied < Len(sub.events)
    /\ view' = onmessage(view, sub.events[view.applied + 1])
    /\ UNCHANGED <<storeVars, runs, lastResult, sub, durability, peer, held>>

\* the form is submitted: handleContinue up to its await, with the
\* observer's clock reading stamp
handleContinue(prompt, stamp) ==
    /\ view.pc = "idle"
    /\ view.status \in {"completed", "error", "paused"}
    /\ IsSome(view.sdkSessionId)
    /\ view' = [view EXCEPT
           !.messages = Append(@, [timestamp |-> stamp, type |-> "user",
                                   subtype |-> None,
                                   content |-> Content("text", prompt, EmptyStr, 0),
                                   metadata |-> None]),
           !.status = "active",
           !.pc = "awaiting"]
    /\ lastResult' = "pending"
    /\ UNCHANGED <<storeVars, runs, sub, durability, peer, held>>

\* the server action the observer awaits runs
ContinueRuns(prompt, repoFound) ==
    /\ view.pc = "awaiting" /\ lastResult = "pending"
    /\ continueSession(sub.sessionId, prompt, repoFound)

\* the await of handleContinue resumes with the result of the call
ContinueResolves ==
    /\ view.pc = "awaiting" /\ lastResult # "pending"
    /\ view' = IF lastResult = "success" THEN [view EXCEPT !.pc = "idle"]
               ELSE [view EXCEPT
                        !.messages = SubSeq(@, 1, Len(@) - 1),
                        !.status = "completed",
                        !.pc = "idle"]
    /\ UNCHANGED <<storeVars, runs, lastResult, sub, durability, peer, held>>

ObserverEvents ==
    {AssistantEvent(Lit("hello", 5), None),
     AssistantEvent(EmptyStr, None),
     SuccessEvent(Some(Large), Some(2000), Some(Token))}

\* one session, one subscription and at most one continuation
NextObserver ==
    \/ \E prompt \in Prompts : runs = <<>> /\ startSession(prompt)
    \/ \E r \in Running, message \in ObserverEvents :
          TotalFed < MaxObserverEvents /\ NextEvent(r, message)
    \/ \E id \in AllIds : Subscribe(id)
    \/ PollTick
    \/ Receive
    \/ \E prompt \in Prompts, stamp \in ClientStamps :
          Len(runs) < 2 /\ handleContinue(prompt, stamp)
    \/ \E prompt \in Prompts, repoFound \in BOOLEAN : ContinueRuns(prompt, repoFound)
    \/ ContinueResolves

SpecObserver == Init /\ [][NextObserver]_vars

\* what the observer shows of a list of entries
Shown(list) == [i \in DOMAIN list |-> [type |-> list[i].type, content |-> list[i].content]]

\* the observer has applied every payload, the poll has sent every entry of
\* the log, and no continuation is awaited
CaughtUp ==
    /\ sub.state = "open"
    /\ view.applied = Len(sub.events) /\ view.applied > 0
    /\ sub.lastMessageCount = Len(sessions[sub.sessionId].messages)
    /\ view.pc = "idle"

\* C39: once the observer has applied every payload of its subscription and
\* its own optimistic user message, its message list holds the entries of
\* the session's log, each once and in the log's order.
C39_ObserverListEqualsLog ==
    CaughtUp => Shown(view.messages) = Shown(sessions[sub.sessionId].messages)

====
